---------------------------- MODULE Spec2Model ----------------------------
(***************************************************************************)
(* Model of the etternaonline-api client.                                  *)
(*                                                                         *)
(*   Spec     the v2 Session (src/src/v2/mod.rs) shared by several         *)
(*            threads, with its AuthorizationManager                       *)
(*            (src/src/common/mod.rs): rate gate call, credential read,    *)
(*            transport call, response classification, re-login.           *)
(*   SpecLib  the single-owner Session of src/src/lib.rs with its inline   *)
(*            rate limiting, over a discrete clock.                        *)
(*   SpecAnswer  one transport answer put through the response handling of *)
(*            the v2, lib.rs and web Sessions.                             *)
(*   SpecReplay  parse_replay (src/src/common/mod.rs and src/src/lib.rs)   *)
(*            applied to a bounded set of replay JSON values, and          *)
(*            Replay::split_into_lanes (src/src/common/structs.rs).        *)
(*   SpecRating  calc_rating and the two overall() methods                 *)
(*            (src/src/common/structs/skillsets.rs), in fixed point.       *)
(*   SpecRange   EoRange::start_length of the five range types             *)
(*            (src/src/web/mod.rs), on 32-bit unsigned integers.           *)
(***************************************************************************)
EXTENDS Integers, Naturals, FiniteSets, Sequences, TLC

\* ------------------------------------------------------------------ bounds
NThreads == 2      \* threads sharing one v2 Session
MaxTokens == 3     \* tokens the server issues (the first at construction)
MaxSends == 3      \* transport calls in one behaviour of Spec

Cooldown == 3      \* the Session's rate_limit / cooldown, in clock ticks
MaxLatency == 2    \* longest transport call, in clock ticks
MaxTime == 8       \* the clock stops being advanced between requests here
MaxLibSends == 4   \* transport calls in one behaviour of SpecLib
MaxRows == 2       \* note rows in the inner replay array
MaxNotes == 2      \* notes of a Replay built by the caller

Threads == 1..NThreads
NoInstant == -1
NoThread == 0
NoToken == 0       \* Option::None of the credential cell

VARIABLES
  \* ---- v2 Session / AuthorizationManager (shared)
  auth,          \* AuthorizationManager.lock contents: NoToken or a token
  writer,        \* thread holding the RwLock write guard, or NoThread
  readers,       \* threads holding a RwLock read guard
  refresh_checking_mutex,         \* thread holding refresh_checking_mutex, or NoThread
  mutexPoisoned, \* refresh_checking_mutex poisoned by a panic
  rwPoisoned,    \* RwLock poisoned by a panic under the write guard
  \* ---- server / transport
  issued,        \* number of tokens the server has issued so far
  sends,         \* transport calls made so far
  \* ---- per thread
  pc,            \* position of the thread in generic_request / refresh
  frame,         \* "req": request(..., true); "login": the login closure
  token,         \* the credential copied for the Authorization header
  result,        \* result of the last returned generic_request
  \* ---- history (observation only)
  nSend,         \* transport calls of the current logical request
  nLogin,        \* login closures invoked by the current logical request
  gotUnauth,     \* the current logical request saw an Unauthorized answer
  otherFailure,  \* its last answer was a failure other than Unauthorized
  invoked,       \* the thread's current refresh call invoked its closure
  rres,          \* outcome of the thread's last returned refresh call
  arrived,       \* the current refresh call started during another's login
  floor,         \* credential stored by completed refreshes when the
                 \* thread's current get_authorization call started
  lastRefreshed, \* token returned by the login of the last completed refresh
  renewed,       \* expired tokens for which a login has already succeeded
  group,         \* refresh calls that started before any of the batch returned
  groupN,        \* number of calls that joined the group
  groupCalls,    \* login closures invoked by calls of the group
  batchOpen,     \* no refresh call of the current batch has returned yet
  \* ---- lib.rs Session (one owner: every method takes &mut self)
  clock,         \* the monotonic clock, in ticks
  last_request,         \* Session.last_request
  authorization,         \* Session.authorization
  lPc,           \* position in generic_request
  lDepth,        \* login() calls on the stack (0: the caller's request)
  lRate,         \* do_rate_limiting of the running generic_request
  lResult,       \* result of the last returned request
  lIssued,       \* tokens issued by the server
  lSends,        \* transport calls made so far
  lPrevStart,    \* start instant of the transport call before the last one
  lCurStart,     \* start instant of the last transport call
  lCurGated,     \* the last transport call went through the rate limiter
  lPrevGated,    \* the transport call before it went through the rate limiter
  lNSend,        \* sends of the caller's current request
  lNLogin,       \* login() calls of the caller's current request
  \* ---- one transport answer and what each Session makes of it
  answer,        \* the answer of the transport call, or NoAnswer
  v2Out,         \* v2 generic_request: result, or Relogin
  libOut,        \* lib.rs generic_request: result, Relogin or a panic
  webOut,        \* web Session::request: result
  \* ---- replays
  replay_json,   \* the JSON value handed to parse_replay, or NoJson
  parsed,        \* result of parse_replay (common/mod.rs)
  libParsed,     \* result of parse_replay (lib.rs)
  replay,        \* the Replay split_into_lanes is called on, or NoReplay
  lanes,         \* result of split_into_lanes
  \* ---- calc_rating
  ssrs,          \* the seven skillset values handed to calc_rating
  site,          \* "chart": ChartSkillsets::overall; "player": UserSkillsets
  cr_pc,         \* "idle", "loop" (inside calc_rating) or "done"
  rating,        \* calc_rating: rating
  resolution,    \* calc_rating: resolution
  iters,         \* iterations of the for loop completed
  incs,          \* (history) increments of the while loop in this iteration
  aggregated,    \* value returned by calc_rating
  overall,       \* value returned by overall()
  prev,          \* (history) the call before a skillset was raised
  \* ---- EoRange
  range,           \* the range handed to start_length
  overflow_checks, \* whether the build panics on integer overflow
  sl               \* what start_length did

v2vars == <<auth, writer, readers, refresh_checking_mutex, mutexPoisoned, rwPoisoned, issued,
            sends, pc, frame, token, result>>
histvars == <<nSend, nLogin, gotUnauth, otherFailure, invoked, rres, arrived, floor,
              lastRefreshed, renewed, group, groupN, groupCalls,
              batchOpen>>
libvars == <<clock, last_request, authorization, lPc, lDepth, lRate, lResult, lIssued,
             lSends, lPrevStart, lCurStart, lCurGated, lPrevGated,
             lNSend, lNLogin>>
answervars == <<answer, v2Out, libOut, webOut>>
replayvars == <<replay_json, parsed, libParsed, replay, lanes>>
ratingvars == <<ssrs, site, cr_pc, rating, resolution, iters, incs, aggregated,
                overall, prev>>
rangevars == <<range, overflow_checks, sl>>
\* the variables the v2 model leaves alone
outsideV2 == <<libvars, answervars, replayvars, ratingvars, rangevars>>
\* the variables the lib.rs model leaves alone
outsideLib == <<v2vars, histvars, answervars, replayvars, ratingvars, rangevars>>
\* the variables the answer model leaves alone
outsideAnswer == <<v2vars, histvars, libvars, replayvars, ratingvars, rangevars>>
\* the variables the replay model leaves alone
outsideReplay == <<v2vars, histvars, libvars, answervars, ratingvars, rangevars>>
\* the variables the rating model leaves alone
outsideRating == <<v2vars, histvars, libvars, answervars, replayvars, rangevars>>
\* the variables the range model leaves alone
outsideRange == <<v2vars, histvars, libvars, answervars, replayvars, ratingvars>>
vars == <<v2vars, histvars, libvars, answervars, replayvars, ratingvars,
          rangevars>>

\* ------------------------------------------------------- transport answers
Statuses == {200, 202, 401, 404, 503}

Titles == {"Unauthorized", "Score not found", "Chart not tracked",
           "User not found", "Favorite already exists", "Database error",
           "Goal already exist", "Chart already exists",
           "Malformed XML file", "No users found", "Something else"}
NoTitle == "<not a string>"

\* kind "empty": zero-length body; "blank": white space only; "malformed":
\* other text that is not JSON; "json": a JSON object (or null) whose
\* errors[0].title is `title` and whose data.attributes.accessToken is a
\* string iff `tok`; "nonobject": a JSON array, number, string or boolean.
\* `long`: the values found in place of the title and of the access token
\* are not strings and print so long that byte 500 of attempt_get's message
\* falls inside a multi-byte character
Bodies == [kind : {"empty", "malformed", "nonobject"}, title : {NoTitle},
           tok : {FALSE}, long : {FALSE}]
          \cup [kind : {"json"}, title : Titles \cup {NoTitle}, tok : BOOLEAN,
                long : {FALSE}]
          \cup [kind : {"json"}, title : {NoTitle}, tok : {FALSE},
                long : {TRUE}]

BlankBody ==
  [kind |-> "blank", title |-> NoTitle, tok |-> FALSE, long |-> FALSE]

Responses ==
  [io : {"timedout", "readtimeout", "readerr"}, status : {200},
   body : {[kind |-> "empty", title |-> NoTitle, tok |-> FALSE,
            long |-> FALSE]}]
  \cup [io : {"ok"}, status : Statuses, body : Bodies \cup {BlankBody}]

\* the answers put through all three Sessions in SpecAnswer
AnswerStatuses == {200, 202, 400, 401, 404, 500, 502, 503, 521, 525}
\* the body {} is the "json" body with no title and no token
EmptyObject == [kind |-> "json", title |-> NoTitle, tok |-> FALSE, long |-> FALSE]
Answers ==
  [io : {"timedout", "readtimeout", "readerr"}, status : {200},
   body : {[kind |-> "empty", title |-> NoTitle, tok |-> FALSE, long |-> FALSE]}]
  \cup [io : {"ok"}, status : AnswerStatuses, body : Bodies \cup {BlankBody}]
NoAnswer == [io |-> "none", status |-> 0, body |-> BlankBody]

Ok(data) == [tag |-> "Ok", err |-> "", code |-> data]
Err(e, c) == [tag |-> "Err", err |-> e, code |-> c]
Relogin == [tag |-> "Relogin", err |-> "", code |-> 0]
NoResult == [tag |-> "None", err |-> "", code |-> 0]
\* json["attributes"]["accessToken"] of a login answer when it is not a
\* string and attempt_get cannot cut its message at byte 500
Unprintable == -1

\* the call panicked instead of returning
Panicked == [tag |-> "Panic", err |-> "", code |-> 0]

TitleError(title) ==
  CASE title = "Score not found" -> "ScoreNotFound"
    [] title = "Chart not tracked" -> "ChartNotTracked"
    [] title = "User not found" -> "UserNotFound"
    [] title = "Favorite already exists" -> "ChartAlreadyFavorited"
    [] title = "Database error" -> "DatabaseError"
    [] title = "Goal already exist" -> "GoalAlreadyExists"
    [] title = "Chart already exists" -> "ChartAlreadyAdded"
    [] title = "Malformed XML file" -> "InvalidXml"
    [] title = "No users found" -> "NoUsersFound"
    [] OTHER -> "UnknownApiError"

\* variant: the body is parsed before it is tested for emptiness
Classify_ParsesFirst(r, data) ==
  IF r.io = "timedout" THEN Err("Timeout", 0)
  ELSE IF r.io = "readtimeout" THEN Err("Timeout", 0)
  ELSE IF r.io = "readerr" THEN Err("Io", 0)
  ELSE IF r.status >= 500 THEN Err("ServerIsDown", r.status)
  ELSE IF r.body.kind \notin {"json", "nonobject"} THEN Err("Json", 0)
  ELSE IF r.status >= 400 THEN
    \* str_() of a value that is not a string: attempt_get builds the
    \* message and truncate(500) panics inside a multi-byte character
    IF r.body.title = NoTitle
    THEN IF r.body.long THEN Panicked ELSE Err("InvalidJsonStructure", 0)
    ELSE IF r.body.title = "Unauthorized" THEN Relogin
    ELSE Err(TitleError(r.body.title), 0)
  \* json["data"].take(): IndexMut panics on a document that is neither an
  \* object nor null
  ELSE IF r.body.kind = "nonobject" THEN Panicked
  ELSE Ok(data)

\* what generic_request does with the answer of its transport call;
\* `data` is what Ok carries (json["data"])
Classify(r, data) ==
  IF r.io = "timedout" THEN Err("Timeout", 0)
  ELSE IF r.io = "readtimeout" THEN Err("Timeout", 0)
  ELSE IF r.io = "readerr" THEN Err("Io", 0)
  ELSE IF r.status >= 500 THEN Err("ServerIsDown", r.status)
  ELSE IF r.body.kind = "empty" THEN Err("EmptyServerResponse", 0)
  ELSE IF r.body.kind \in {"malformed", "blank"} THEN Err("Json", 0)
  ELSE IF r.status >= 400 THEN
    \* str_() of a value that is not a string: attempt_get builds the
    \* message and truncate(500) panics inside a multi-byte character
    IF r.body.title = NoTitle
    THEN IF r.body.long THEN Panicked ELSE Err("InvalidJsonStructure", 0)
    ELSE IF r.body.title = "Unauthorized" THEN Relogin
    ELSE Err(TitleError(r.body.title), 0)
  \* json["data"].take(): IndexMut panics on a document that is neither an
  \* object nor null
  ELSE IF r.body.kind = "nonobject" THEN Panicked
  ELSE Ok(data)

\* ------------------------------------------------------------ u32 values
\* a u32 is held as two 16-bit halves
Half == 65536
U32(h, l) == [hi |-> h, lo |-> l]
U32Zero == U32(0, 0)
U32Max == U32(Half - 1, Half - 1)

\* ---------------------------------------------------- replay JSON values
\* numbers of seconds are held in fixed point, in units of 1e-8 s
FixedOne == 100000000
\* 0.18 of parse_replay in these units
MissSentinel == 18000000
\* the f32 arithmetic of the miss test: within 1 ms of 180 a deviation_ms
\* is an f32 multiple of 2^-16 and its thousandth an f32 multiple of 2^-26;
\* 180 is F32Ms180 steps of 2^-16, 0.18f32 is F32Sentinel steps of 2^-26,
\* and 0.0000001f32 lies between MissUlps and MissUlps + 1 steps of 2^-26
F32Ms180 == 11796480
F32Sentinel == 12079596
MissUlps == 6
\* deviations further than 1 ms from 180 ms are hits
MissWindow == 100000
\* the slots of a note row that parse_replay looks at
SlotsRead == 5

\* a JSON value in a slot of a note row: an integer n below 2^31, the
\* integer 2^32 + n, a number with a fraction (n is its value in units of
\* 1e-5), a short string, or a string so long that byte 500 of the message
\* attempt_get builds for it falls inside a multi-byte character
JInt(n) == [k |-> "int", n |-> n]
JBig(n) == [k |-> "big", n |-> n]
JFloat(n) == [k |-> "float", n |-> n]
JStr == [k |-> "str", n |-> 0]
JLongStr == [k |-> "longstr", n |-> 0]

\* the canonical row [1, 45, 0, 1, 96]
BaseRow == <<JInt(1), JInt(45), JInt(0), JInt(1), JInt(96)>>
\* other values tried in slot i: 1.5 and the two strings for the time;
\* 180, 180.00005, 179.99991 and a string for the deviation; -1, 5, 256
\* and the long string for the lane; 2 (a hold head), 4 (a mine), 0,
\* 4294967297 and the long string for the note type; a string, -1,
\* 4294967392 and the long string for the tick
SlotAlternatives(i) ==
  CASE i = 1 -> {JFloat(150000), JStr, JLongStr}
    [] i = 2 -> {JInt(180), JFloat(18000005), JFloat(17999991), JStr}
    [] i = 3 -> {JInt(-1), JInt(5), JInt(256), JLongStr}
    [] i = 4 -> {JInt(2), JInt(4), JInt(0), JBig(1), JLongStr}
    [] OTHER -> {JStr, JInt(-1), JBig(96), JLongStr}
\* the rows of length len that differ from the canonical row in at most
\* one slot
RowsOfLen(len) ==
  LET base == SubSeq(BaseRow, 1, len)
  IN {base} \cup UNION {{[base EXCEPT ![i] = v] : v \in SlotAlternatives(i)}
                        : i \in 1..len}
\* an element of the inner array: an array of slots, or something else,
\* which prints short or (`long`) so that attempt_get cannot cut its message
NotARow == [arr |-> FALSE, slots |-> <<>>, long |-> FALSE]
LongNotARow == [arr |-> FALSE, slots |-> <<>>, long |-> TRUE]
RowSet ==
  {NotARow, LongNotARow}
  \cup {[arr |-> TRUE, slots |-> r, long |-> FALSE] :
          r \in UNION {RowsOfLen(len) : len \in 0..SlotsRead}}
\* the inner string: text that is not JSON, JSON that is not an array
\* (printing short, "scalar", or long as above, "longscalar"), or an array
\* of rows
NoInner == [kind |-> "none", rows |-> <<>>]
InnerOf(n) ==
  {[kind |-> k, rows |-> <<>>] : k \in {"invalid", "scalar", "longscalar"}}
  \cup {[kind |-> "rows", rows |-> r] : r \in UNION {[1..k -> RowSet] : k \in 0..n}}
\* the outer value: null, a number, a boolean, an object, [], an array
\* whose first element is not a string, a bare string, an array of one
\* string, or an array of a string and something more
ReplayJsons ==
  [shape : {"null", "number", "bool", "object", "array0", "array_nonstr"},
   inner : {NoInner}]
  \cup [shape : {"array1", "string"}, inner : InnerOf(MaxRows)]
  \cup [shape : {"array2"}, inner : InnerOf(1)]
NoJson == [shape |-> "none", inner |-> NoInner]

\* Option values
Some(x) == [some |-> TRUE, v |-> x]
None == [some |-> FALSE, v |-> 0]
NoTick == [some |-> FALSE, v |-> U32Zero]
NoType == [some |-> FALSE, v |-> "-"]
NullNote ==
  [time |-> 0, hit |-> FALSE, deviation |-> 0, lane |-> None,
   note_type |-> NoType, tick |-> NoTick]

\* Result<Option<Replay>, Error> of parse_replay, and a panic
RSome(notes) == [tag |-> "Some", err |-> "", notes |-> notes]
RNone == [tag |-> "None", err |-> "", notes |-> <<>>]
RErr(e) == [tag |-> "Err", err |-> e, notes |-> <<>>]
RPanic == [tag |-> "Panic", err |-> "", notes |-> <<>>]
NotParsed == [tag |-> "-", err |-> "", notes |-> <<>>]

\* a Replay value held by the caller
ReplayOf(notes) == [present |-> TRUE, notes |-> notes]
NoReplay == [present |-> FALSE, notes |-> <<>>]
\* the notes a caller puts at position i of a Replay it builds itself:
\* time i s; a miss or a hit 45 ms late; lane absent, 0, 1 or 5; note type
\* absent, Tap or Mine
BuiltNotes(i) ==
  {[time |-> i * FixedOne, hit |-> h, deviation |-> IF h THEN 4500000 ELSE 0,
    lane |-> l, note_type |-> nt, tick |-> NoTick] :
     h \in BOOLEAN, l \in {None, Some(0), Some(1), Some(5)},
     nt \in {NoType, Some("Tap"), Some("Mine")}}
BuiltReplays ==
  UNION {{r \in [1..k -> UNION {BuiltNotes(i) : i \in 1..k}] :
            \A i \in 1..k : r[i] \in BuiltNotes(i)} : k \in 0..MaxNotes}

\* Option<[NoteAndHitSeconds; 4]> of split_into_lanes
EmptyLanes == [i \in 1..4 |-> [note_seconds |-> <<>>, hit_seconds |-> <<>>]]
SplitSome(l) == [tag |-> "Some", lanes |-> l]
SplitNone == [tag |-> "None", lanes |-> EmptyLanes]
NotSplit == [tag |-> "-", lanes |-> EmptyLanes]

\* ------------------------------------------------- skillset ratings
\* ratings and skillset values are held in units of 0.005; 10.24 is 2048
InitialResolution == 2048
\* the skillset values tried: 0, 5.00 and 10.00
CategoryValues == {0, 1000, 2000}
SkillsetVectors == [1..7 -> CategoryValues]
\* variant: neither call site asks for the final resolution * 2
Params_NoBias(s) ==
  IF s = "chart"
  THEN [num_iters |-> 11, add_res_x2 |-> FALSE, final_multiplier |-> 111,
        delta_multiplier |-> 250]
  ELSE [num_iters |-> 11, add_res_x2 |-> FALSE, final_multiplier |-> 100,
        delta_multiplier |-> 100]

\* the arguments of calc_rating at its two call sites; final_multiplier in
\* hundredths, delta_multiplier in thousandths
Params(s) ==
  IF s = "chart"
  THEN [num_iters |-> 11, add_res_x2 |-> TRUE, final_multiplier |-> 111,
        delta_multiplier |-> 250]
  ELSE [num_iters |-> 11, add_res_x2 |-> TRUE, final_multiplier |-> 100,
        delta_multiplier |-> 100]
NoPrev == [called |-> FALSE, ssrs |-> [i \in 1..7 |-> 0], aggregated |-> 0]

\* 2f32.powf(rating / 10.0) in millionths, for rating = 0.00, 0.01, ...
\* 21.00 (entry k + 1 is for rating k * 0.01)
PowTwo ==
  <<
   1000000, 1000693, 1001387, 1002082, 1002776, 1003472, 1004168, 1004864, 1005561, 1006258,
   1006956, 1007654, 1008352, 1009052, 1009751, 1010451, 1011152, 1011853, 1012555, 1013257,
   1013959, 1014663, 1015366, 1016070, 1016775, 1017480, 1018185, 1018891, 1019598, 1020305,
   1021012, 1021720, 1022429, 1023137, 1023847, 1024557, 1025267, 1025978, 1026690, 1027401,
   1028114, 1028827, 1029540, 1030254, 1030968, 1031683, 1032399, 1033114, 1033831, 1034548,
   1035265, 1035983, 1036701, 1037420, 1038139, 1038859, 1039579, 1040300, 1041022, 1041743,
   1042466, 1043189, 1043912, 1044636, 1045360, 1046085, 1046810, 1047536, 1048262, 1048989,
   1049717, 1050445, 1051173, 1051902, 1052631, 1053361, 1054091, 1054822, 1055554, 1056286,
   1057018, 1057751, 1058484, 1059218, 1059953, 1060688, 1061423, 1062159, 1062896, 1063633,
   1064370, 1065108, 1065847, 1066586, 1067325, 1068065, 1068806, 1069547, 1070289, 1071031,
   1071773, 1072517, 1073260, 1074004, 1074749, 1075494, 1076240, 1076986, 1077733, 1078480,
   1079228, 1079977, 1080725, 1081475, 1082225, 1082975, 1083726, 1084477, 1085229, 1085982,
   1086735, 1087488, 1088242, 1088997, 1089752, 1090508, 1091264, 1092021, 1092778, 1093535,
   1094294, 1095052, 1095812, 1096572, 1097332, 1098093, 1098854, 1099616, 1100379, 1101142,
   1101905, 1102669, 1103434, 1104199, 1104964, 1105731, 1106497, 1107265, 1108032, 1108801,
   1109569, 1110339, 1111109, 1111879, 1112650, 1113422, 1114194, 1114966, 1115739, 1116513,
   1117287, 1118062, 1118837, 1119613, 1120389, 1121166, 1121943, 1122721, 1123500, 1124279,
   1125058, 1125839, 1126619, 1127400, 1128182, 1128964, 1129747, 1130531, 1131314, 1132099,
   1132884, 1133669, 1134455, 1135242, 1136029, 1136817, 1137605, 1138394, 1139183, 1139973,
   1140764, 1141555, 1142346, 1143138, 1143931, 1144724, 1145518, 1146312, 1147107, 1147902,
   1148698, 1149495, 1150292, 1151089, 1151888, 1152686, 1153486, 1154285, 1155086, 1155887,
   1156688, 1157490, 1158293, 1159096, 1159900, 1160704, 1161509, 1162314, 1163120, 1163927,
   1164734, 1165541, 1166349, 1167158, 1167967, 1168777, 1169588, 1170399, 1171210, 1172022,
   1172835, 1173648, 1174462, 1175276, 1176091, 1176907, 1177723, 1178539, 1179357, 1180174,
   1180993, 1181812, 1182631, 1183451, 1184272, 1185093, 1185914, 1186737, 1187560, 1188383,
   1189207, 1190032, 1190857, 1191683, 1192509, 1193336, 1194163, 1194991, 1195820, 1196649,
   1197479, 1198309, 1199140, 1199971, 1200803, 1201636, 1202469, 1203303, 1204137, 1204972,
   1205808, 1206644, 1207481, 1208318, 1209156, 1209994, 1210833, 1211673, 1212513, 1213354,
   1214195, 1215037, 1215879, 1216722, 1217566, 1218410, 1219255, 1220101, 1220947, 1221793,
   1222640, 1223488, 1224336, 1225185, 1226035, 1226885, 1227736, 1228587, 1229439, 1230291,
   1231144, 1231998, 1232852, 1233707, 1234563, 1235419, 1236275, 1237132, 1237990, 1238849,
   1239708, 1240567, 1241427, 1242288, 1243150, 1244012, 1244874, 1245737, 1246601, 1247466,
   1248331, 1249196, 1250062, 1250929, 1251796, 1252664, 1253533, 1254402, 1255272, 1256142,
   1257013, 1257885, 1258757, 1259630, 1260503, 1261377, 1262252, 1263127, 1264003, 1264880,
   1265757, 1266634, 1267513, 1268391, 1269271, 1270151, 1271032, 1271913, 1272795, 1273677,
   1274561, 1275444, 1276329, 1277214, 1278099, 1278986, 1279872, 1280760, 1281648, 1282537,
   1283426, 1284316, 1285206, 1286097, 1286989, 1287882, 1288775, 1289668, 1290562, 1291457,
   1292353, 1293249, 1294146, 1295043, 1295941, 1296840, 1297739, 1298639, 1299539, 1300440,
   1301342, 1302244, 1303147, 1304051, 1304955, 1305860, 1306765, 1307671, 1308578, 1309485,
   1310393, 1311302, 1312211, 1313121, 1314032, 1314943, 1315855, 1316767, 1317680, 1318594,
   1319508, 1320423, 1321338, 1322255, 1323171, 1324089, 1325007, 1325926, 1326845, 1327765,
   1328686, 1329607, 1330529, 1331452, 1332375, 1333299, 1334223, 1335148, 1336074, 1337000,
   1337928, 1338855, 1339784, 1340713, 1341642, 1342573, 1343503, 1344435, 1345367, 1346300,
   1347234, 1348168, 1349103, 1350038, 1350974, 1351911, 1352848, 1353786, 1354725, 1355664,
   1356604, 1357545, 1358486, 1359428, 1360371, 1361314, 1362258, 1363203, 1364148, 1365094,
   1366040, 1366987, 1367935, 1368884, 1369833, 1370783, 1371733, 1372684, 1373636, 1374589,
   1375542, 1376496, 1377450, 1378405, 1379361, 1380317, 1381274, 1382232, 1383191, 1384150,
   1385109, 1386070, 1387031, 1387993, 1388955, 1389918, 1390882, 1391846, 1392811, 1393777,
   1394744, 1395711, 1396679, 1397647, 1398616, 1399586, 1400556, 1401527, 1402499, 1403472,
   1404445, 1405419, 1406393, 1407368, 1408344, 1409321, 1410298, 1411276, 1412254, 1413234,
   1414214, 1415194, 1416175, 1417157, 1418140, 1419123, 1420107, 1421092, 1422077, 1423063,
   1424050, 1425038, 1426026, 1427015, 1428004, 1428994, 1429985, 1430977, 1431969, 1432962,
   1433955, 1434950, 1435945, 1436940, 1437937, 1438934, 1439931, 1440930, 1441929, 1442929,
   1443929, 1444930, 1445932, 1446935, 1447938, 1448942, 1449947, 1450952, 1451958, 1452965,
   1453973, 1454981, 1455990, 1456999, 1458009, 1459020, 1460032, 1461044, 1462057, 1463071,
   1464086, 1465101, 1466117, 1467133, 1468151, 1469169, 1470187, 1471207, 1472227, 1473248,
   1474269, 1475291, 1476314, 1477338, 1478362, 1479388, 1480413, 1481440, 1482467, 1483495,
   1484524, 1485553, 1486583, 1487614, 1488645, 1489677, 1490710, 1491744, 1492778, 1493813,
   1494849, 1495886, 1496923, 1497961, 1499000, 1500039, 1501079, 1502120, 1503161, 1504204,
   1505247, 1506290, 1507335, 1508380, 1509426, 1510473, 1511520, 1512568, 1513617, 1514666,
   1515717, 1516768, 1517819, 1518872, 1519925, 1520979, 1522033, 1523089, 1524145, 1525202,
   1526259, 1527317, 1528377, 1529436, 1530497, 1531558, 1532620, 1533683, 1534746, 1535810,
   1536875, 1537941, 1539007, 1540074, 1541142, 1542211, 1543280, 1544350, 1545421, 1546493,
   1547565, 1548638, 1549712, 1550786, 1551862, 1552938, 1554015, 1555092, 1556170, 1557249,
   1558329, 1559410, 1560491, 1561573, 1562656, 1563739, 1564824, 1565909, 1566994, 1568081,
   1569168, 1570256, 1571345, 1572435, 1573525, 1574616, 1575708, 1576800, 1577894, 1578988,
   1580083, 1581178, 1582275, 1583372, 1584470, 1585568, 1586668, 1587768, 1588869, 1589971,
   1591073, 1592176, 1593280, 1594385, 1595490, 1596597, 1597704, 1598812, 1599920, 1601030,
   1602140, 1603251, 1604362, 1605475, 1606588, 1607702, 1608817, 1609932, 1611049, 1612166,
   1613284, 1614402, 1615522, 1616642, 1617763, 1618884, 1620007, 1621130, 1622254, 1623379,
   1624505, 1625631, 1626758, 1627886, 1629015, 1630145, 1631275, 1632406, 1633538, 1634671,
   1635804, 1636938, 1638073, 1639209, 1640346, 1641483, 1642621, 1643760, 1644900, 1646041,
   1647182, 1648324, 1649467, 1650611, 1651755, 1652901, 1654047, 1655194, 1656341, 1657490,
   1658639, 1659789, 1660940, 1662092, 1663244, 1664397, 1665552, 1666706, 1667862, 1669019,
   1670176, 1671334, 1672493, 1673652, 1674813, 1675974, 1677136, 1678299, 1679463, 1680628,
   1681793, 1682959, 1684126, 1685294, 1686462, 1687632, 1688802, 1689973, 1691145, 1692317,
   1693491, 1694665, 1695840, 1697016, 1698192, 1699370, 1700548, 1701727, 1702907, 1704088,
   1705270, 1706452, 1707635, 1708819, 1710004, 1711190, 1712377, 1713564, 1714752, 1715941,
   1717131, 1718322, 1719513, 1720705, 1721898, 1723092, 1724287, 1725483, 1726679, 1727876,
   1729074, 1730273, 1731473, 1732674, 1733875, 1735077, 1736280, 1737484, 1738689, 1739895,
   1741101, 1742308, 1743516, 1744725, 1745935, 1747146, 1748357, 1749570, 1750783, 1751997,
   1753211, 1754427, 1755644, 1756861, 1758079, 1759298, 1760518, 1761739, 1762960, 1764183,
   1765406, 1766630, 1767855, 1769081, 1770308, 1771535, 1772763, 1773993, 1775223, 1776454,
   1777685, 1778918, 1780151, 1781386, 1782621, 1783857, 1785094, 1786332, 1787570, 1788810,
   1790050, 1791291, 1792533, 1793776, 1795020, 1796265, 1797510, 1798757, 1800004, 1801252,
   1802501, 1803751, 1805001, 1806253, 1807505, 1808759, 1810013, 1811268, 1812524, 1813781,
   1815038, 1816297, 1817556, 1818817, 1820078, 1821340, 1822603, 1823866, 1825131, 1826397,
   1827663, 1828930, 1830198, 1831467, 1832737, 1834008, 1835280, 1836552, 1837826, 1839100,
   1840375, 1841651, 1842928, 1844206, 1845485, 1846765, 1848045, 1849327, 1850609, 1851892,
   1853176, 1854461, 1855747, 1857034, 1858321, 1859610, 1860899, 1862190, 1863481, 1864773,
   1866066, 1867360, 1868655, 1869950, 1871247, 1872544, 1873843, 1875142, 1876442, 1877743,
   1879045, 1880348, 1881652, 1882957, 1884263, 1885569, 1886877, 1888185, 1889494, 1890804,
   1892115, 1893427, 1894740, 1896054, 1897369, 1898684, 1900001, 1901318, 1902637, 1903956,
   1905276, 1906597, 1907919, 1909242, 1910566, 1911891, 1913216, 1914543, 1915870, 1917199,
   1918528, 1919859, 1921190, 1922522, 1923855, 1925189, 1926524, 1927860, 1929196, 1930534,
   1931873, 1933212, 1934553, 1935894, 1937236, 1938580, 1939924, 1941269, 1942615, 1943962,
   1945310, 1946659, 1948009, 1949359, 1950711, 1952064, 1953417, 1954772, 1956127, 1957483,
   1958841, 1960199, 1961558, 1962918, 1964279, 1965641, 1967004, 1968368, 1969733, 1971099,
   1972465, 1973833, 1975202, 1976571, 1977942, 1979313, 1980686, 1982059, 1983433, 1984809,
   1986185, 1987562, 1988940, 1990319, 1991700, 1993081, 1994463, 1995845, 1997229, 1998614,
   2000000, 2001387, 2002775, 2004163, 2005553, 2006943, 2008335, 2009728, 2011121, 2012516,
   2013911, 2015308, 2016705, 2018103, 2019503, 2020903, 2022304, 2023706, 2025110, 2026514,
   2027919, 2029325, 2030732, 2032140, 2033549, 2034959, 2036370, 2037782, 2039195, 2040609,
   2042024, 2043440, 2044857, 2046275, 2047694, 2049114, 2050534, 2051956, 2053379, 2054803,
   2056228, 2057653, 2059080, 2060508, 2061937, 2063366, 2064797, 2066229, 2067661, 2069095,
   2070530, 2071966, 2073402, 2074840, 2076279, 2077718, 2079159, 2080601, 2082043, 2083487,
   2084932, 2086377, 2087824, 2089272, 2090720, 2092170, 2093621, 2095072, 2096525, 2097979,
   2099433, 2100889, 2102346, 2103804, 2105262, 2106722, 2108183, 2109645, 2111107, 2112571,
   2114036, 2115502, 2116969, 2118437, 2119906, 2121375, 2122846, 2124318, 2125791, 2127265,
   2128740, 2130216, 2131693, 2133172, 2134651, 2136131, 2137612, 2139094, 2140577, 2142062,
   2143547, 2145033, 2146521, 2148009, 2149498, 2150989, 2152480, 2153973, 2155466, 2156961,
   2158456, 2159953, 2161451, 2162950, 2164449, 2165950, 2167452, 2168955, 2170459, 2171964,
   2173470, 2174977, 2176485, 2177994, 2179504, 2181015, 2182528, 2184041, 2185555, 2187071,
   2188587, 2190105, 2191624, 2193143, 2194664, 2196186, 2197708, 2199232, 2200757, 2202283,
   2203810, 2205338, 2206867, 2208398, 2209929, 2211461, 2212995, 2214529, 2216065, 2217601,
   2219139, 2220678, 2222217, 2223758, 2225300, 2226843, 2228387, 2229932, 2231479, 2233026,
   2234574, 2236124, 2237674, 2239226, 2240778, 2242332, 2243887, 2245443, 2247000, 2248558,
   2250117, 2251677, 2253238, 2254801, 2256364, 2257929, 2259494, 2261061, 2262629, 2264198,
   2265768, 2267339, 2268911, 2270484, 2272059, 2273634, 2275210, 2276788, 2278367, 2279947,
   2281527, 2283109, 2284692, 2286277, 2287862, 2289448, 2291036, 2292624, 2294214, 2295805,
   2297397, 2298990, 2300584, 2302179, 2303775, 2305373, 2306971, 2308571, 2310172, 2311773,
   2313376, 2314980, 2316586, 2318192, 2319799, 2321408, 2323017, 2324628, 2326240, 2327853,
   2329467, 2331082, 2332699, 2334316, 2335935, 2337554, 2339175, 2340797, 2342420, 2344045,
   2345670, 2347296, 2348924, 2350553, 2352183, 2353813, 2355446, 2357079, 2358713, 2360349,
   2361985, 2363623, 2365262, 2366902, 2368543, 2370186, 2371829, 2373474, 2375119, 2376766,
   2378414, 2380063, 2381714, 2383365, 2385018, 2386671, 2388326, 2389982, 2391640, 2393298,
   2394957, 2396618, 2398280, 2399943, 2401607, 2403272, 2404938, 2406606, 2408275, 2409945,
   2411616, 2413288, 2414961, 2416636, 2418311, 2419988, 2421666, 2423345, 2425026, 2426707,
   2428390, 2430074, 2431759, 2433445, 2435132, 2436821, 2438510, 2440201, 2441893, 2443586,
   2445281, 2446976, 2448673, 2450371, 2452070, 2453770, 2455471, 2457174, 2458878, 2460583,
   2462289, 2463996, 2465705, 2467414, 2469125, 2470837, 2472551, 2474265, 2475981, 2477697,
   2479415, 2481135, 2482855, 2484577, 2486299, 2488023, 2489748, 2491475, 2493202, 2494931,
   2496661, 2498392, 2500125, 2501858, 2503593, 2505329, 2507066, 2508804, 2510544, 2512285,
   2514027, 2515770, 2517514, 2519260, 2521007, 2522755, 2524504, 2526255, 2528006, 2529759,
   2531513, 2533269, 2535025, 2536783, 2538542, 2540302, 2542063, 2543826, 2545590, 2547355,
   2549121, 2550889, 2552658, 2554428, 2556199, 2557971, 2559745, 2561520, 2563296, 2565073,
   2566852, 2568632, 2570413, 2572195, 2573978, 2575763, 2577549, 2579337, 2581125, 2582915,
   2584706, 2586498, 2588291, 2590086, 2591882, 2593679, 2595478, 2597277, 2599078, 2600880,
   2602684, 2604488, 2606294, 2608101, 2609910, 2611720, 2613531, 2615343, 2617156, 2618971,
   2620787, 2622604, 2624423, 2626242, 2628063, 2629886, 2631709, 2633534, 2635360, 2637187,
   2639016, 2640846, 2642677, 2644509, 2646343, 2648178, 2650014, 2651852, 2653690, 2655530,
   2657372, 2659214, 2661058, 2662903, 2664750, 2666597, 2668446, 2670297, 2672148, 2674001,
   2675855, 2677711, 2679567, 2681425, 2683284, 2685145, 2687007, 2688870, 2690734, 2692600,
   2694467, 2696335, 2698205, 2700076, 2701948, 2703822, 2705696, 2707573, 2709450, 2711329,
   2713209, 2715090, 2716973, 2718856, 2720742, 2722628, 2724516, 2726405, 2728296, 2730187,
   2732081, 2733975, 2735871, 2737768, 2739666, 2741566, 2743467, 2745369, 2747272, 2749177,
   2751084, 2752991, 2754900, 2756810, 2758722, 2760635, 2762549, 2764464, 2766381, 2768299,
   2770219, 2772140, 2774062, 2775985, 2777910, 2779836, 2781764, 2783693, 2785623, 2787554,
   2789487, 2791422, 2793357, 2795294, 2797232, 2799172, 2801113, 2803055, 2804999, 2806943,
   2808890, 2810837, 2812786, 2814737, 2816688, 2818642, 2820596, 2822552, 2824509, 2826467,
   2828427, 2830388, 2832351, 2834315, 2836280, 2838247, 2840215, 2842184, 2844155, 2846127,
   2848100, 2850075, 2852051, 2854029, 2856008, 2857988, 2859970, 2861953, 2863937, 2865923,
   2867910, 2869899, 2871889, 2873880, 2875873, 2877867, 2879863, 2881859, 2883858, 2885857,
   2887858, 2889861, 2891865, 2893870, 2895876, 2897884, 2899894, 2901904, 2903917, 2905930,
   2907945, 2909961, 2911979, 2913998, 2916019, 2918041, 2920064, 2922089, 2924115, 2926142,
   2928171, 2930202, 2932234, 2934267, 2936301, 2938337, 2940375, 2942413, 2944454, 2946495,
   2948538, 2950583, 2952629, 2954676, 2956725, 2958775, 2960827, 2962880, 2964934, 2966990,
   2969047, 2971106, 2973166, 2975228, 2977291, 2979355, 2981421, 2983488, 2985557, 2987627,
   2989698, 2991772, 2993846, 2995922, 2997999, 3000078, 3002158, 3004240, 3006323, 3008408,
   3010493, 3012581, 3014670, 3016760, 3018852, 3020945, 3023040, 3025136, 3027234, 3029333,
   3031433, 3033535, 3035639, 3037743, 3039850, 3041958, 3044067, 3046177, 3048290, 3050403,
   3052518, 3054635, 3056753, 3058873, 3060994, 3063116, 3065240, 3067365, 3069492, 3071621,
   3073750, 3075882, 3078014, 3080149, 3082284, 3084422, 3086560, 3088701, 3090842, 3092985,
   3095130, 3097276, 3099424, 3101573, 3103723, 3105876, 3108029, 3110184, 3112341, 3114499,
   3116658, 3118819, 3120982, 3123146, 3125312, 3127479, 3129647, 3131817, 3133989, 3136162,
   3138336, 3140512, 3142690, 3144869, 3147050, 3149232, 3151416, 3153601, 3155787, 3157976,
   3160165, 3162356, 3164549, 3166743, 3168939, 3171137, 3173335, 3175536, 3177738, 3179941,
   3182146, 3184352, 3186560, 3188770, 3190981, 3193194, 3195408, 3197623, 3199841, 3202059,
   3204280, 3206501, 3208725, 3210950, 3213176, 3215404, 3217633, 3219865, 3222097, 3224331,
   3226567, 3228804, 3231043, 3233283, 3235525, 3237769, 3240014, 3242260, 3244509, 3246758,
   3249010, 3251262, 3253517, 3255773, 3258030, 3260289, 3262550, 3264812, 3267076, 3269341,
   3271608, 3273877, 3276147, 3278418, 3280692, 3282966, 3285243, 3287521, 3289800, 3292081,
   3294364, 3296648, 3298934, 3301222, 3303511, 3305801, 3308093, 3310387, 3312683, 3314980,
   3317278, 3319578, 3321880, 3324183, 3326488, 3328795, 3331103, 3333413, 3335724, 3338037,
   3340352, 3342668, 3344986, 3347305, 3349626, 3351949, 3354273, 3356599, 3358926, 3361255,
   3363586, 3365918, 3368252, 3370587, 3372924, 3375263, 3377604, 3379946, 3382289, 3384634,
   3386981, 3389330, 3391680, 3394032, 3396385, 3398740, 3401097, 3403455, 3405815, 3408176,
   3410540, 3412904, 3415271, 3417639, 3420009, 3422380, 3424753, 3427128, 3429504, 3431882,
   3434262, 3436643, 3439026, 3441411, 3443797, 3446185, 3448574, 3450965, 3453358, 3455753,
   3458149, 3460547, 3462946, 3465347, 3467750, 3470155, 3472561, 3474969, 3477378, 3479789,
   3482202, 3484617, 3487033, 3489451, 3491870, 3494292, 3496714, 3499139, 3501565, 3503993,
   3506423, 3508854, 3511287, 3513722, 3516158, 3518596, 3521036, 3523477, 3525921, 3528365,
   3530812, 3533260, 3535710, 3538162, 3540615, 3543070, 3545527, 3547985, 3550445, 3552907,
   3555371, 3557836, 3560303, 3562772, 3565242, 3567714, 3570188, 3572663, 3575141, 3577620,
   3580100, 3582583, 3585067, 3587553, 3590040, 3592529, 3595021, 3597513, 3600008, 3602504,
   3605002, 3607502, 3610003, 3612506, 3615011, 3617518, 3620026, 3622536, 3625048, 3627561,
   3630077, 3632594, 3635112, 3637633, 3640155, 3642679, 3645205, 3647733, 3650262, 3652793,
   3655326, 3657860, 3660397, 3662935, 3665475, 3668016, 3670560, 3673105, 3675652, 3678200,
   3680751, 3683303, 3685857, 3688412, 3690970, 3693529, 3696090, 3698653, 3701218, 3703784,
   3706352, 3708922, 3711494, 3714067, 3716643, 3719220, 3721799, 3724379, 3726962, 3729546,
   3732132, 3734720, 3737309, 3739901, 3742494, 3745089, 3747686, 3750284, 3752885, 3755487,
   3758091, 3760697, 3763304, 3765914, 3768525, 3771138, 3773753, 3776370, 3778988, 3781608,
   3784231, 3786855, 3789480, 3792108, 3794737, 3797368, 3800002, 3802636, 3805273, 3807912,
   3810552, 3813194, 3815838, 3818484, 3821132, 3823781, 3826433, 3829086, 3831741, 3834398,
   3837056, 3839717, 3842379, 3845044, 3847710, 3850378, 3853048, 3855719, 3858393, 3861068,
   3863745, 3866424, 3869105, 3871788, 3874473, 3877159, 3879848, 3882538, 3885230, 3887924,
   3890620, 3893317, 3896017, 3898719, 3901422, 3904127, 3906834, 3909543, 3912254, 3914967,
   3917681, 3920398, 3923116, 3925836, 3928558, 3931282, 3934008, 3936736, 3939466, 3942197,
   3944931, 3947666, 3950403, 3953143, 3955884, 3958627, 3961371, 3964118, 3966867, 3969617,
   3972370, 3975124, 3977881, 3980639, 3983399, 3986161, 3988925, 3991691, 3994459, 3997228,
   4000000, 4002774, 4005549, 4008326, 4011106, 4013887, 4016670, 4019455, 4022242, 4025031,
   4027822, 4030615, 4033410, 4036207, 4039005, 4041806, 4044608, 4047413, 4050219, 4053028,
   4055838, 4058650, 4061464, 4064281, 4067099, 4069919, 4072741, 4075565, 4078391, 4081219,
   4084049, 4086880, 4089714, 4092550, 4095388, 4098227, 4101069, 4103913, 4106758, 4109606,
   4112455, 4115307, 4118160, 4121016, 4123873, 4126733, 4129594, 4132458, 4135323, 4138190,
   4141060, 4143931, 4146804, 4149680, 4152557, 4155436, 4158318, 4161201, 4164086, 4166974,
   4169863, 4172754, 4175648, 4178543, 4181440, 4184340, 4187241, 4190145, 4193050, 4195957,
   4198867, 4201778, 4204692, 4207607, 4210525, 4213444, 4216366, 4219289, 4222215, 4225143,
   4228072, 4231004, 4233938, 4236873, 4239811, 4242751, 4245693, 4248637, 4251583, 4254531,
   4257481, 4260433, 4263387, 4266343, 4269301, 4272262, 4275224, 4278188, 4281155, 4284123,
   4287094
  >>


\* 2.0 / erfc(0.25 * d) - 2.0 in millionths, for d = 0.01, 0.02, ...: the
\* entries below 5
ChartPower ==
  <<
   5658, 11348, 17070, 22824, 28612, 34432, 40285, 46171, 52091, 58044,
   64032, 70053, 76109, 82199, 88324, 94485, 100680, 106911, 113177, 119479,
   125818, 132192, 138604, 145052, 151537, 158059, 164619, 171217, 177853, 184527,
   191240, 197991, 204781, 211611, 218480, 225389, 232338, 239327, 246356, 253427,
   260539, 267692, 274886, 282123, 289401, 296722, 304086, 311493, 318943, 326437,
   333974, 341556, 349182, 356853, 364569, 372330, 380137, 387990, 395889, 403835,
   411827, 419867, 427954, 436089, 444272, 452503, 460783, 469113, 477492, 485920,
   494399, 502928, 511508, 520139, 528821, 537555, 546342, 555181, 564073, 573018,
   582016, 591069, 600176, 609338, 618554, 627826, 637154, 646539, 655979, 665477,
   675032, 684645, 694316, 704046, 713835, 723683, 733590, 743558, 753587, 763677,
   773828, 784041, 794316, 804655, 815056, 825521, 836050, 846644, 857302, 868026,
   878816, 889673, 900596, 911586, 922644, 933771, 944966, 956230, 967565, 978969,
   990444, 1001990, 1013608, 1025298, 1037061, 1048897, 1060807, 1072791, 1084850, 1096985,
   1109195, 1121482, 1133846, 1146287, 1158806, 1171404, 1184082, 1196839, 1209676, 1222595,
   1235595, 1248677, 1261841, 1275090, 1288422, 1301838, 1315340, 1328928, 1342602, 1356363,
   1370212, 1384149, 1398175, 1412291, 1426496, 1440793, 1455182, 1469663, 1484236, 1498904,
   1513665, 1528522, 1543474, 1558523, 1573669, 1588913, 1604256, 1619697, 1635239, 1650882,
   1666626, 1682473, 1698423, 1714476, 1730634, 1746898, 1763268, 1779745, 1796329, 1813022,
   1829825, 1846738, 1863762, 1880898, 1898147, 1915509, 1932986, 1950579, 1968287, 1986113,
   2004056, 2022119, 2040301, 2058604, 2077029, 2095577, 2114247, 2133043, 2151963, 2171010,
   2190185, 2209488, 2228920, 2248482, 2268176, 2288002, 2307961, 2328055, 2348284, 2368649,
   2389153, 2409794, 2430576, 2451498, 2472562, 2493769, 2515120, 2536616, 2558258, 2580048,
   2601987, 2624075, 2646314, 2668706, 2691251, 2713950, 2736805, 2759817, 2782988, 2806318,
   2829808, 2853461, 2877277, 2901257, 2925403, 2949717, 2974199, 2998851, 3023674, 3048670,
   3073840, 3099185, 3124707, 3150408, 3176287, 3202348, 3228592, 3255019, 3281632, 3308432,
   3335420, 3362598, 3389968, 3417530, 3445288, 3473241, 3501393, 3529744, 3558295, 3587050,
   3616009, 3645173, 3674546, 3704127, 3733920, 3763925, 3794145, 3824582, 3855236, 3886110,
   3917206, 3948525, 3980070, 4011841, 4043842, 4076074, 4108538, 4141237, 4174173, 4207348,
   4240763, 4274421, 4308323, 4342472, 4376870, 4411519, 4446420, 4481577, 4516991, 4552664,
   4588598, 4624797, 4661261, 4697993, 4734996, 4772271, 4809821, 4847648, 4885755, 4924144,
   4962817
  >>


\* 2.0 / erfc(0.1 * d) - 2.0 in millionths, for d = 0.01, 0.02, ...: the
\* entries below 5
PlayerPower ==
  <<
   2259, 4524, 6793, 9068, 11348, 13633, 15923, 18218, 20519, 22824,
   25135, 27451, 29773, 32100, 34432, 36769, 39111, 41459, 43812, 46171,
   48535, 50904, 53279, 55659, 58044, 60435, 62831, 65233, 67640, 70053,
   72471, 74895, 77324, 79759, 82199, 84645, 87097, 89554, 92016, 94485,
   96958, 99438, 101923, 104414, 106911, 109413, 111921, 114435, 116954, 119479,
   122010, 124547, 127090, 129638, 132192, 134752, 137318, 139890, 142468, 145052,
   147641, 150237, 152839, 155446, 158059, 160679, 163304, 165936, 168574, 171217,
   173867, 176523, 179185, 181853, 184527, 187207, 189894, 192587, 195286, 197991,
   200702, 203420, 206144, 208874, 211611, 214354, 217103, 219858, 222620, 225389,
   228163, 230945, 233732, 236526, 239327, 242134, 244947, 247767, 250594, 253427,
   256267, 259113, 261966, 264825, 267692, 270564, 273444, 276330, 279223, 282123,
   285029, 287942, 290862, 293789, 296722, 299663, 302610, 305564, 308525, 311493,
   314468, 317450, 320438, 323434, 326437, 329447, 332463, 335487, 338518, 341556,
   344601, 347653, 350713, 353779, 356853, 359934, 363022, 366118, 369220, 372330,
   375447, 378572, 381704, 384843, 387990, 391144, 394305, 397474, 400651, 403835,
   407026, 410225, 413431, 416645, 419867, 423096, 426332, 429577, 432829, 436089,
   439356, 442631, 445914, 449205, 452503, 455809, 459123, 462445, 465775, 469113,
   472458, 475812, 479173, 482543, 485920, 489306, 492699, 496101, 499510, 502928,
   506354, 509788, 513230, 516680, 520139, 523606, 527081, 530564, 534056, 537555,
   541064, 544580, 548105, 551639, 555181, 558731, 562290, 565857, 569433, 573018,
   576611, 580212, 583823, 587441, 591069, 594705, 598350, 602004, 605666, 609338,
   613018, 616706, 620404, 624111, 627826, 631551, 635284, 639027, 642778, 646539,
   650308, 654087, 657874, 661671, 665477, 669292, 673117, 676950, 680793, 684645,
   688507, 692377, 696258, 700147, 704046, 707954, 711872, 715799, 719736, 723683,
   727639, 731604, 735579, 739564, 743558, 747563, 751577, 755600, 759634, 763677,
   767730, 771793, 775866, 779948, 784041, 788144, 792256, 796379, 800512, 804655,
   808808, 812971, 817144, 821327, 825521, 829725, 833939, 838164, 842398, 846644,
   850899, 855165, 859442, 863729, 868026, 872334, 876653, 880982, 885322, 889673,
   894034, 898406, 902788, 907182, 911586, 916001, 920427, 924864, 929312, 933771,
   938241, 942721, 947213, 951716, 956230, 960756, 965292, 969840, 974399, 978969,
   983550, 988143, 992747, 997363, 1001990, 1006629, 1011279, 1015940, 1020613, 1025298,
   1029995, 1034703, 1039422, 1044154, 1048897, 1053652, 1058419, 1063198, 1067989, 1072791,
   1077606, 1082433, 1087271, 1092122, 1096985, 1101860, 1106747, 1111646, 1116558, 1121482,
   1126418, 1131367, 1136328, 1141301, 1146287, 1151285, 1156296, 1161319, 1166356, 1171404,
   1176466, 1181540, 1186627, 1191726, 1196839, 1201964, 1207102, 1212253, 1217417, 1222595,
   1227785, 1232988, 1238204, 1243434, 1248677, 1253933, 1259202, 1264484, 1269780, 1275090,
   1280412, 1285749, 1291098, 1296462, 1301838, 1307229, 1312633, 1318051, 1323483, 1328928,
   1334387, 1339860, 1345347, 1350848, 1356363, 1361892, 1367435, 1372992, 1378563, 1384149,
   1389749, 1395363, 1400991, 1406634, 1412291, 1417962, 1423648, 1429349, 1435064, 1440793,
   1446538, 1452297, 1458071, 1463859, 1469663, 1475481, 1481314, 1487162, 1493025, 1498904,
   1504797, 1510705, 1516629, 1522568, 1528522, 1534491, 1540476, 1546476, 1552492, 1558523,
   1564570, 1570632, 1576710, 1582804, 1588913, 1595038, 1601179, 1607336, 1613509, 1619697,
   1625902, 1632123, 1638360, 1644613, 1650882, 1657167, 1663469, 1669787, 1676122, 1682473,
   1688840, 1695224, 1701625, 1708042, 1714476, 1720927, 1727394, 1733879, 1740380, 1746898,
   1753433, 1759985, 1766555, 1773141, 1779745, 1786365, 1793004, 1799659, 1806332, 1813022,
   1819730, 1826456, 1833199, 1839960, 1846738, 1853534, 1860349, 1867180, 1874030, 1880898,
   1887784, 1894688, 1901610, 1908551, 1915509, 1922486, 1929482, 1936496, 1943528, 1950579,
   1957648, 1964736, 1971843, 1978968, 1986113, 1993276, 2000458, 2007659, 2014880, 2022119,
   2029378, 2036655, 2043952, 2051269, 2058604, 2065960, 2073334, 2080729, 2088143, 2095577,
   2103030, 2110503, 2117996, 2125510, 2133043, 2140596, 2148169, 2155763, 2163376, 2171010,
   2178665, 2186340, 2194035, 2201751, 2209488, 2217245, 2225023, 2232822, 2240641, 2248482,
   2256344, 2264226, 2272130, 2280055, 2288002, 2295969, 2303958, 2311969, 2320001, 2328055,
   2336130, 2344227, 2352346, 2360487, 2368649, 2376834, 2385041, 2393270, 2401521, 2409794,
   2418090, 2426408, 2434749, 2443112, 2451498, 2459906, 2468337, 2476792, 2485269, 2493769,
   2502292, 2510838, 2519407, 2528000, 2536616, 2545255, 2553918, 2562604, 2571314, 2580048,
   2588806, 2597587, 2606392, 2615222, 2624075, 2632953, 2641854, 2650780, 2659731, 2668706,
   2677705, 2686729, 2695778, 2704852, 2713950, 2723073, 2732222, 2741395, 2750594, 2759817,
   2769066, 2778341, 2787641, 2796966, 2806318, 2815694, 2825097, 2834526, 2843980, 2853461,
   2862967, 2872500, 2882059, 2891645, 2901257, 2910896, 2920561, 2930253, 2939971, 2949717,
   2959490, 2969289, 2979116, 2988970, 2998851, 3008760, 3018696, 3028660, 3038651, 3048670,
   3058717, 3068792, 3078895, 3089026, 3099185, 3109373, 3119589, 3129833, 3140106, 3150408,
   3160738, 3171097, 3181485, 3191902, 3202348, 3212824, 3223328, 3233862, 3244426, 3255019,
   3265642, 3276294, 3286977, 3297689, 3308432, 3319204, 3330007, 3340840, 3351704, 3362598,
   3373523, 3384478, 3395465, 3406482, 3417530, 3428610, 3439721, 3450863, 3462036, 3473241,
   3484478, 3495747, 3507047, 3518379, 3529744, 3541140, 3552569, 3564030, 3575524, 3587050,
   3598609, 3610200, 3621825, 3633483, 3645173, 3656897, 3668654, 3680445, 3692269, 3704127,
   3716019, 3727944, 3739904, 3751898, 3763925, 3775988, 3788084, 3800215, 3812381, 3824582,
   3836817, 3849088, 3861393, 3873734, 3886110, 3898522, 3910969, 3923452, 3935970, 3948525,
   3961116, 3973743, 3986406, 3999105, 4011841, 4024614, 4037423, 4050270, 4063153, 4076074,
   4089031, 4102026, 4115059, 4128129, 4141237, 4154383, 4167567, 4180789, 4194049, 4207348,
   4220685, 4234060, 4247475, 4260928, 4274421, 4287952, 4301523, 4315133, 4328783, 4342472,
   4356201, 4369971, 4383780, 4397629, 4411519, 4425449, 4439420, 4453431, 4467484, 4481577,
   4495712, 4509887, 4524105, 4538363, 4552664, 4567006, 4581391, 4595817, 4610286, 4624797,
   4639350, 4653947, 4668586, 4683268, 4697993, 4712761, 4727573, 4742429, 4757328, 4772271,
   4787258, 4802289, 4817364, 4832484, 4847648, 4862857, 4878111, 4893410, 4908754, 4924144,
   4939579, 4955060, 4970586, 4986159
  >>

\* where the tables end the value is 5 or more, which is more than every
\* entry of PowTwo
PowerCap == 5000000

\* ------------------------------------------------------ u32 ranges
\* the range ends tried: 0, 1, 2, 65536, u32::MAX - 1, u32::MAX
RangeEnds ==
  {U32Zero, U32(0, 1), U32(0, 2), U32(1, 0), U32(Half - 1, Half - 2), U32Max}
\* a..b, a..=b, ..=b, ..b and ..
Ranges ==
  [kind : {"Range", "RangeInclusive"}, start : RangeEnds, end : RangeEnds]
  \cup [kind : {"RangeToInclusive", "RangeTo"}, start : {U32Zero},
        end : RangeEnds]
  \cup [kind : {"RangeFull"}, start : {U32Zero}, end : {U32Zero}]
NoRange == [kind |-> "none", start |-> U32Zero, end |-> U32Zero]
NotCalled == [kind |-> "none", start |-> U32Zero, length |-> U32Zero]
\* start_length returned (start, length)
Returned(st, len) == [kind |-> "ok", start |-> st, length |-> len]
\* panic!("Range cannot be empty ...")
PanicEmpty == [kind |-> "panic_empty", start |-> U32Zero, length |-> U32Zero]
\* the panic of an integer overflow in a build with overflow checks
PanicOverflow ==
  [kind |-> "panic_overflow", start |-> U32Zero, length |-> U32Zero]

\* ------------------------------------------------------------------- Init
Init ==
  /\ auth = 1 /\ issued = 1
  /\ writer = NoThread /\ readers = {} /\ refresh_checking_mutex = NoThread
  /\ mutexPoisoned = FALSE /\ rwPoisoned = FALSE
  /\ sends = 0
  /\ pc = [t \in Threads |-> "idle"]
  /\ frame = [t \in Threads |-> "req"]
  /\ token = [t \in Threads |-> NoToken]
  /\ result = [t \in Threads |-> NoResult]
  /\ nSend = [t \in Threads |-> 0]
  /\ nLogin = [t \in Threads |-> 0]
  /\ gotUnauth = [t \in Threads |-> FALSE]
  /\ otherFailure = [t \in Threads |-> FALSE]
  /\ invoked = [t \in Threads |-> FALSE]
  /\ rres = [t \in Threads |-> "none"]
  /\ arrived = [t \in Threads |-> FALSE]
  /\ floor = [t \in Threads |-> NoToken]
  /\ lastRefreshed = 1
  /\ renewed = {}
  /\ group = {} /\ groupN = 0 /\ groupCalls = 0 /\ batchOpen = FALSE
  \* lib.rs: new_from_login set last_request = now and logged in at once
  /\ clock = 1 /\ last_request = 0 /\ authorization = 1 /\ lIssued = 1
  /\ lPc = "idle" /\ lDepth = 0 /\ lRate = TRUE /\ lResult = NoResult
  /\ lSends = 0 /\ lPrevStart = NoInstant /\ lCurStart = 0
  /\ lCurGated = FALSE /\ lPrevGated = FALSE /\ lNSend = 0 /\ lNLogin = 0
  \* no transport call has been answered yet
  /\ answer = NoAnswer /\ v2Out = NoResult /\ libOut = NoResult
  /\ webOut = NoResult
  \* no replay has been fetched, parsed or built yet
  /\ replay_json = NoJson /\ parsed = NotParsed /\ libParsed = NotParsed
  /\ replay = NoReplay /\ lanes = NotSplit
  \* no overall() has been called yet
  /\ ssrs = [i \in 1..7 |-> 0] /\ site = "chart" /\ cr_pc = "idle"
  /\ rating = 0 /\ resolution = InitialResolution /\ iters = 0 /\ incs = 0
  /\ aggregated = 0 /\ overall = 0 /\ prev = NoPrev
  \* no range has been converted yet
  /\ range = NoRange /\ overflow_checks = FALSE /\ sl = NotCalled

\* --------------------------------------------------------------- helpers
RefreshPcs == {"r_lock", "r_try", "r_drop", "r_write", "r_wait", "r_drop2",
               "r_assign"}

\* thread u is inside a call of AuthorizationManager::refresh
InRefresh(u) ==
  pc[u] \in RefreshPcs \/ (frame[u] = "login" /\ pc[u] # "panicked")

\* thread u holds the write guard and is running its login closure
InClosure(u) == writer = u /\ frame[u] = "login"

\* the answer that makes generic_request log in again
IsUnauthorizedAnswer(r) ==
  /\ r.io = "ok" /\ r.status >= 400 /\ r.status < 500
  /\ r.body.kind = "json" /\ r.body.title = "Unauthorized"

\* an answer that generic_request cannot turn into Ok and that does not make
\* it log in again: a transport error, a status of 400 or more, an empty
\* body, text that is not JSON (white space included), or a JSON document
\* that has no "data" member to take because it is neither an object nor
\* null
IsOtherFailure(r) ==
  /\ ~IsUnauthorizedAnswer(r)
  /\ \/ r.io # "ok"
     \/ r.status >= 400
     \/ r.body.kind \in {"empty", "malformed", "blank", "nonobject"}

\* a thread that panics unwinds: its guards are dropped, and a refresh_checking_mutex or a
\* write-locked RwLock whose guard is dropped during a panic is poisoned
Panic(t) ==
  /\ pc' = [pc EXCEPT ![t] = "panicked"]
  /\ refresh_checking_mutex' = IF refresh_checking_mutex = t THEN NoThread ELSE refresh_checking_mutex
  /\ mutexPoisoned' = (mutexPoisoned \/ refresh_checking_mutex = t)
  /\ writer' = IF writer = t THEN NoThread ELSE writer
  /\ rwPoisoned' = (rwPoisoned \/ writer = t)
  /\ readers' = readers \ {t}

\* history: thread t (in frame "req") enters refresh
StartRefreshHist(t) ==
  /\ invoked' = [invoked EXCEPT ![t] = FALSE]
  /\ rres' = [rres EXCEPT ![t] = "none"]
  /\ arrived' = [arrived EXCEPT ![t] = \E u \in Threads \ {t} : InClosure(u)]
  /\ IF \A u \in Threads \ {t} : ~InRefresh(u)
     THEN group' = {t} /\ groupN' = 1 /\ groupCalls' = 0 /\ batchOpen' = TRUE
     ELSE IF batchOpen
     THEN group' = group \cup {t} /\ groupN' = groupN + 1
          /\ UNCHANGED <<groupCalls, batchOpen>>
     ELSE UNCHANGED <<group, groupN, groupCalls, batchOpen>>

\* history: thread t returns from its refresh call
EndRefreshHist(t, r) ==
  /\ rres' = [rres EXCEPT ![t] = r]
  /\ group' = group \ {t}
  /\ batchOpen' = FALSE
  /\ UNCHANGED <<groupN, groupCalls>>

\* ------------------------------------------------ v2 Session: a request
\* Session::request: generic_request(method, path, callback, true)
Request(t) ==
  /\ pc[t] = "idle"
  /\ sends < MaxSends
  /\ pc' = [pc EXCEPT ![t] = "rate"]
  /\ frame' = [frame EXCEPT ![t] = "req"]
  /\ result' = [result EXCEPT ![t] = NoResult]
  /\ token' = [token EXCEPT ![t] = NoToken]
  /\ nSend' = [nSend EXCEPT ![t] = 0]
  /\ nLogin' = [nLogin EXCEPT ![t] = 0]
  /\ gotUnauth' = [gotUnauth EXCEPT ![t] = FALSE]
  /\ otherFailure' = [otherFailure EXCEPT ![t] = FALSE]
  /\ UNCHANGED <<auth, writer, readers, refresh_checking_mutex, mutexPoisoned, rwPoisoned,
                 issued, sends, invoked, rres, arrived, floor, lastRefreshed,
                 renewed, group, groupN, groupCalls, batchOpen>>
  /\ UNCHANGED outsideV2

\* generic_request: the rate gate call, then the request is built; with
\* do_authorization the credential is read next
RateLimit(t) ==
  /\ pc[t] = "rate"
  /\ pc' = [pc EXCEPT ![t] = IF frame[t] = "req" THEN "get_auth" ELSE "send"]
  /\ floor' = [floor EXCEPT ![t] =
                 IF frame[t] = "req" THEN lastRefreshed ELSE floor[t]]
  /\ UNCHANGED <<auth, writer, readers, refresh_checking_mutex, mutexPoisoned, rwPoisoned,
                 issued, sends, frame, token, result, nSend, nLogin,
                 gotUnauth, otherFailure, invoked, rres, arrived, lastRefreshed, renewed,
                 group, groupN, groupCalls, batchOpen>>
  /\ UNCHANGED outsideV2

\* variant: a read lock that does not wait for the writer
CanRead_IgnoresWriter == TRUE

\* RwLock::read succeeds when no thread holds the write guard
CanRead == writer = NoThread

\* get_authorization: self.lock.read().unwrap()
GetAuthorization(t) ==
  /\ pc[t] = "get_auth"
  /\ CanRead
  /\ IF rwPoisoned
     THEN Panic(t)
     ELSE /\ readers' = readers \cup {t}
          /\ pc' = [pc EXCEPT ![t] = "copy"]
          /\ UNCHANGED <<writer, refresh_checking_mutex, mutexPoisoned, rwPoisoned>>
  /\ UNCHANGED <<auth, issued, sends, frame, token, result, histvars>>
  /\ UNCHANGED outsideV2

\* variant: the read guard outlives the statement that copies the token
ReadersAfterCopy_KeepsGuard(rs, t) == rs

\* the read guards held once `let auth = ...get_authorization()...clone();`
\* has ended: the temporary guard of t is dropped with the statement
ReadersAfterCopy(rs, t) == rs \ {t}

\* generic_request: .as_ref().expect(..).clone(), then the guard is dropped
CopyToken(t) ==
  /\ pc[t] = "copy"
  /\ IF auth = NoToken
     THEN Panic(t) /\ UNCHANGED token
     ELSE /\ token' = [token EXCEPT ![t] = auth]
          /\ readers' = ReadersAfterCopy(readers, t)
          /\ pc' = [pc EXCEPT ![t] = "send"]
          /\ UNCHANGED <<writer, refresh_checking_mutex, mutexPoisoned, rwPoisoned>>
  /\ UNCHANGED <<auth, issued, sends, frame, result, histvars>>
  /\ UNCHANGED outsideV2

\* generic_request from the transport call to its return, to self.login()
\* or to the panic of json["data"].take(), which unwinds through refresh
\* when the call is the one of the login closure
Transport(t) ==
  /\ pc[t] = "send"
  /\ sends < MaxSends
  /\ \E r \in Responses :
       LET data == IF frame[t] # "login" THEN 0
                   ELSE IF r.body.tok THEN issued + 1
                   ELSE IF r.body.long THEN Unprintable ELSE 0
           c == Classify(r, data)
       IN /\ (c.tag = "Ok" /\ data > 0) => issued < MaxTokens
          /\ issued' = IF c.tag = "Ok" /\ data > 0 THEN issued + 1 ELSE issued
          /\ sends' = sends + 1
          /\ nSend' = [nSend EXCEPT ![t] =
                         IF frame[t] = "req" THEN @ + 1 ELSE @]
          /\ gotUnauth' = [gotUnauth EXCEPT ![t] =
                             @ \/ (frame[t] = "req" /\ IsUnauthorizedAnswer(r))]
          /\ otherFailure' = [otherFailure EXCEPT ![t] =
                                IF frame[t] = "req" THEN IsOtherFailure(r)
                                ELSE @]
          /\ CASE c.tag = "Relogin" ->
                    /\ pc' = [pc EXCEPT ![t] = "r_lock"]
                    /\ UNCHANGED <<result, writer, readers,
                                   refresh_checking_mutex, mutexPoisoned,
                                   rwPoisoned>>
                    /\ IF frame[t] = "req"
                       THEN StartRefreshHist(t)
                       ELSE UNCHANGED <<invoked, rres, arrived, group, groupN,
                                        groupCalls, batchOpen>>
               [] c.tag = "Panic" ->
                    /\ Panic(t)
                    /\ UNCHANGED <<result, invoked, rres, arrived, group,
                                   groupN, groupCalls, batchOpen>>
               [] OTHER ->
                    /\ pc' = [pc EXCEPT ![t] =
                                IF frame[t] = "req" THEN "idle" ELSE "r_assign"]
                    /\ result' = [result EXCEPT ![t] = c]
                    /\ UNCHANGED <<writer, readers, refresh_checking_mutex,
                                   mutexPoisoned, rwPoisoned, invoked, rres,
                                   arrived, group, groupN, groupCalls,
                                   batchOpen>>
  /\ UNCHANGED <<auth, frame, token, nLogin, floor, lastRefreshed, renewed>>
  /\ UNCHANGED outsideV2

\* ------------------------------------- AuthorizationManager::refresh
\* self.refresh_checking_mutex.lock().unwrap()
RefreshLock(t) ==
  /\ pc[t] = "r_lock"
  /\ refresh_checking_mutex = NoThread
  /\ IF mutexPoisoned
     THEN Panic(t)
     ELSE /\ refresh_checking_mutex' = t
          /\ pc' = [pc EXCEPT ![t] = "r_try"]
          /\ UNCHANGED <<writer, readers, mutexPoisoned, rwPoisoned>>
  /\ UNCHANGED <<auth, issued, sends, frame, token, result, histvars>>
  /\ UNCHANGED outsideV2

\* a writer blocked in RwLock::write behind read guards
WriterWaiting == readers # {} /\ \E u \in Threads : pc[u] = "r_write"

\* the outcomes of RwLock::try_read: it fails while the write guard is held,
\* and an implementation that prefers writers also fails it while a writer
\* is queued behind readers
TryReadOutcomes ==
  IF writer # NoThread THEN {FALSE}
  ELSE IF WriterWaiting THEN {TRUE, FALSE}
  ELSE {TRUE}

\* if try_lock_immutable(&self.lock).is_some()
RefreshTry(t) ==
  /\ pc[t] = "r_try"
  /\ \E ok \in TryReadOutcomes :
       IF ok /\ rwPoisoned
       THEN Panic(t)
       ELSE /\ pc' = [pc EXCEPT ![t] = IF ok THEN "r_drop" ELSE "r_wait"]
            /\ UNCHANGED <<writer, readers, refresh_checking_mutex, mutexPoisoned, rwPoisoned>>
  /\ UNCHANGED <<auth, issued, sends, frame, token, result, histvars>>
  /\ UNCHANGED outsideV2

\* drop(refresh_guard) of the login branch
RefreshDropGuard(t) ==
  /\ pc[t] = "r_drop"
  /\ refresh_checking_mutex' = NoThread
  /\ pc' = [pc EXCEPT ![t] = "r_write"]
  /\ UNCHANGED <<auth, writer, readers, mutexPoisoned, rwPoisoned, issued,
                 sends, frame, token, result, histvars>>
  /\ UNCHANGED outsideV2

\* variant: a write lock that only waits for readers
CanWrite_IgnoresWriter == readers = {}

\* RwLock::write succeeds when no guard of either kind is held
CanWrite == writer = NoThread /\ readers = {}

\* let mut write_guard = self.lock.write().unwrap(); then (f)() is entered
RefreshWrite(t) ==
  /\ pc[t] = "r_write"
  /\ CanWrite
  /\ IF rwPoisoned
     THEN /\ Panic(t)
          /\ UNCHANGED <<frame, invoked, nLogin, groupCalls, renewed>>
     ELSE /\ writer' = t
          /\ frame' = [frame EXCEPT ![t] = "login"]
          /\ pc' = [pc EXCEPT ![t] = "rate"]
          /\ invoked' = [invoked EXCEPT ![t] = TRUE]
          /\ nLogin' = [nLogin EXCEPT ![t] = @ + 1]
          /\ groupCalls' = IF t \in group THEN groupCalls + 1 ELSE groupCalls
          /\ UNCHANGED <<readers, refresh_checking_mutex, mutexPoisoned, rwPoisoned, renewed>>
  /\ UNCHANGED <<auth, issued, sends, token, result, nSend, gotUnauth, otherFailure, rres,
                 arrived, floor, lastRefreshed, group, groupN, batchOpen>>
  /\ UNCHANGED outsideV2

\* variant: a failed login clears the credential
StoredAfterLogin_ClearsOnErr(res, old) ==
  IF res.tag = "Ok" /\ res.code # NoToken THEN res.code ELSE NoToken

\* variant: the token of a successful login is dropped instead of stored
StoredAfterLogin_KeepsOld(res, old) == old

\* the credential cell after `*write_guard = (f)()?;`: the closure's token
\* when it returned Ok, the old contents when `?` returned early
StoredAfterLogin(res, old) ==
  IF res.tag = "Ok" /\ res.code # NoToken THEN res.code ELSE old

\* variant: the write guard is still held when refresh returns
WriterAfterAssign_KeepsGuard(t) == t

\* the holder of the write guard once the login branch of refresh is left,
\* by `?` or at its end: write_guard goes out of scope
WriterAfterAssign(t) == NoThread

\* the login closure reads the access token and returns:
\* *write_guard = (f)()?; the guard is dropped, refresh returns, and
\* generic_request goes on after self.login()?. When str_() panics on the
\* access token, the closure unwinds under the write guard
RefreshAssign(t) ==
  /\ pc[t] = "r_assign"
  /\ IF result[t].tag = "Ok" /\ result[t].code = Unprintable
     THEN /\ Panic(t)
          /\ UNCHANGED <<frame, auth, lastRefreshed, renewed, result, rres,
                         group, groupN, groupCalls, batchOpen>>
     ELSE /\ writer' = WriterAfterAssign(t)
          /\ frame' = [frame EXCEPT ![t] = "req"]
          /\ auth' = StoredAfterLogin(result[t], auth)
          /\ IF result[t].tag = "Ok" /\ result[t].code # NoToken
             THEN /\ lastRefreshed' = result[t].code
                  /\ renewed' = renewed \cup {token[t]}
                  /\ pc' = [pc EXCEPT ![t] = "rate"]
                  /\ result' = [result EXCEPT ![t] = NoResult]
                  /\ EndRefreshHist(t, "ok")
             ELSE /\ UNCHANGED <<lastRefreshed, renewed>>
                  /\ pc' = [pc EXCEPT ![t] = "idle"]
                  /\ result' = [result EXCEPT ![t] =
                                  IF result[t].tag = "Ok"
                                  THEN Err("InvalidJsonStructure", 0) ELSE @]
                  /\ EndRefreshHist(t, "err")
          /\ UNCHANGED <<readers, refresh_checking_mutex, mutexPoisoned,
                         rwPoisoned>>
  /\ UNCHANGED <<issued, sends, token, nSend, nLogin, gotUnauth, otherFailure, invoked,
                 arrived, floor>>
  /\ UNCHANGED outsideV2

\* drop(self.lock.read().unwrap()) of the waiting branch
RefreshWaitRead(t) ==
  /\ pc[t] = "r_wait"
  /\ CanRead
  /\ IF rwPoisoned
     THEN Panic(t)
     ELSE /\ pc' = [pc EXCEPT ![t] = "r_drop2"]
          /\ UNCHANGED <<writer, readers, refresh_checking_mutex, mutexPoisoned, rwPoisoned>>
  /\ UNCHANGED <<auth, issued, sends, frame, token, result, histvars>>
  /\ UNCHANGED outsideV2

\* RwLock::read by the thread that holds the write guard itself (re-login
\* nested in the login closure) blocks forever or panics
RefreshReadOwnWrite(t) ==
  /\ pc[t] = "r_wait"
  /\ writer = t
  /\ Panic(t)
  /\ UNCHANGED <<auth, issued, sends, frame, token, result, histvars>>
  /\ UNCHANGED outsideV2

\* drop(refresh_guard) of the waiting branch; refresh returns Ok(()) and
\* generic_request calls itself again
RefreshDropGuard2(t) ==
  /\ pc[t] = "r_drop2"
  /\ refresh_checking_mutex' = NoThread
  /\ pc' = [pc EXCEPT ![t] = "rate"]
  /\ EndRefreshHist(t, "ok")
  /\ UNCHANGED <<auth, writer, readers, mutexPoisoned, rwPoisoned, issued,
                 sends, frame, token, result, nSend, nLogin, gotUnauth, otherFailure,
                 invoked, arrived, floor, lastRefreshed, renewed>>
  /\ UNCHANGED outsideV2

Next ==
  \E t \in Threads :
    \/ Request(t)
    \/ RateLimit(t)
    \/ GetAuthorization(t)
    \/ CopyToken(t)
    \/ Transport(t)
    \/ RefreshLock(t)
    \/ RefreshTry(t)
    \/ RefreshDropGuard(t)
    \/ RefreshWrite(t)
    \/ RefreshAssign(t)
    \/ RefreshWaitRead(t)
    \/ RefreshReadOwnWrite(t)
    \/ RefreshDropGuard2(t)

Spec == Init /\ [][Next]_vars

\* ------------------------------------------------ lib.rs Session (SpecLib)
LibStatuses == {200, 401, 404, 500, 503}
LibResponses ==
  [io : {"timedout", "readtimeout", "readerr"}, status : {200},
   body : {[kind |-> "empty", title |-> NoTitle, tok |-> FALSE, long |-> FALSE]}]
  \cup [io : {"ok"}, status : LibStatuses, body : Bodies]

LibPanic == [tag |-> "Panic", err |-> "", code |-> 0]

\* what lib.rs generic_request does with the answer of its transport call
LibClassify(r, data) ==
  IF r.io = "timedout" THEN Err("Timeout", 0)
  ELSE IF r.io = "readtimeout" THEN Err("Timeout", 0)
  ELSE IF r.io = "readerr" THEN Err("InvalidJson", 0)
  ELSE IF r.body.kind \notin {"json", "nonobject"} THEN Err("InvalidJson", 0)
  ELSE IF r.status >= 400 THEN
    IF r.status = 521 \/ r.status = 503 \/ r.status = 525
    THEN Err("ServerIsDown", 0)
    ELSE IF r.body.title = NoTitle THEN LibPanic
    ELSE IF r.body.title = "Unauthorized" THEN Relogin
    ELSE Err(TitleError(r.body.title), 0)
  \* json["data"].take(): IndexMut panics on a document that is neither an
  \* object nor null
  ELSE IF r.body.kind = "nonobject" THEN LibPanic
  ELSE Ok(data)

\* time passes while the owner of the Session does something else
LibTick ==
  /\ lPc = "idle"
  /\ clock < MaxTime
  /\ clock' = clock + 1
  /\ UNCHANGED <<last_request, authorization, lPc, lDepth, lRate, lResult, lIssued, lSends,
                 lPrevStart, lCurStart, lCurGated, lPrevGated, lNSend,
                 lNLogin>>
  /\ UNCHANGED outsideLib

\* Session::request: generic_request(method, path, callback, true, true)
LibRequest ==
  /\ lPc = "idle"
  /\ lSends < MaxLibSends
  /\ lPc' = "rate"
  /\ lDepth' = 0
  /\ lRate' = TRUE
  /\ lResult' = NoResult
  /\ lNSend' = 0 /\ lNLogin' = 0
  /\ UNCHANGED <<clock, last_request, authorization, lIssued, lSends, lPrevStart, lCurStart,
                 lCurGated, lPrevGated>>
  /\ UNCHANGED outsideLib

\* the instant at which thread::sleep(d) started at instant `from` returns:
\* not before from + d, possibly a tick later
SleepEnds(from, d) == {from + d, from + d + 1}

\* generic_request: if do_rate_limiting { now; sleep; last_request = now }
LibRateLimit ==
  /\ lPc = "rate"
  /\ IF lRate
     THEN LET now == clock
              time_since_last_request == now - last_request
          IN /\ IF time_since_last_request < Cooldown
                THEN clock' \in SleepEnds(clock,
                                          Cooldown - time_since_last_request)
                ELSE clock' = clock
             /\ last_request' = now
     ELSE UNCHANGED <<clock, last_request>>
  /\ lPc' = "send"
  /\ UNCHANGED <<authorization, lDepth, lRate, lResult, lIssued, lSends, lPrevStart,
                 lCurStart, lCurGated, lPrevGated, lNSend, lNLogin>>
  /\ UNCHANGED outsideLib

\* generic_request from the transport call on: the answer is classified;
\* Unauthorized calls login() and then request() again; login() stores the
\* token of its answer in self.authorization and then reads expiresAt, which
\* is an integer in the answer or not
LibTransport ==
  /\ lPc = "send"
  /\ lSends < MaxLibSends
  /\ lSends' = lSends + 1
  /\ lPrevStart' = lCurStart
  /\ lCurStart' = clock
  /\ lCurGated' = lRate
  /\ lPrevGated' = lCurGated
  /\ lNSend' = IF lDepth = 0 THEN lNSend + 1 ELSE lNSend
  /\ \E d \in 1..MaxLatency : clock' = clock + d
  /\ \E r \in LibResponses, expiresAt \in BOOLEAN :
       LET data == IF lDepth > 0 /\ r.body.tok THEN lIssued + 1 ELSE 0
           c == LibClassify(r, data)
       IN /\ (c.tag = "Ok" /\ data # 0) => lIssued < MaxTokens
          /\ lIssued' = IF c.tag = "Ok" /\ data # 0 THEN lIssued + 1
                        ELSE lIssued
          /\ CASE c.tag = "Relogin" ->
                    \* self.login(): generic_request(.., false, false)
                    /\ lDepth' = lDepth + 1
                    /\ lRate' = FALSE
                    /\ lPc' = "rate"
                    /\ lNLogin' = lNLogin + 1
                    /\ UNCHANGED <<authorization, lResult>>
               [] c.tag = "Panic" ->
                    /\ lPc' = "panicked"
                    /\ UNCHANGED <<authorization, lResult, lDepth, lRate, lNLogin>>
               [] c.tag = "Err" ->
                    \* returned through every `self.login()?` on the stack
                    /\ lPc' = "idle"
                    /\ lResult' = c
                    /\ lDepth' = 0
                    /\ UNCHANGED <<authorization, lRate, lNLogin>>
               [] c.tag = "Ok" /\ lDepth = 0 ->
                    /\ lPc' = "idle"
                    /\ lResult' = c
                    /\ UNCHANGED <<authorization, lDepth, lRate, lNLogin>>
               [] c.tag = "Ok" /\ lDepth > 0 /\ data = 0 ->
                    \* json["attributes"]["accessToken"].as_str().unwrap()
                    /\ lPc' = "panicked"
                    /\ UNCHANGED <<authorization, lResult, lDepth, lRate, lNLogin>>
               [] c.tag = "Ok" /\ lDepth > 0 /\ data # 0 /\ ~expiresAt ->
                    \* self.authorization = ..; then
                    \* json["attributes"]["expiresAt"].as_i64().unwrap()
                    /\ authorization' = data
                    /\ lPc' = "panicked"
                    /\ UNCHANGED <<lResult, lDepth, lRate, lNLogin>>
               [] c.tag = "Ok" /\ lDepth > 0 /\ data # 0 /\ expiresAt ->
                    \* login() returns; its caller goes on with
                    \* `return self.request(method, path, request_callback)`
                    /\ authorization' = data
                    /\ lDepth' = lDepth - 1
                    /\ lRate' = TRUE
                    /\ lPc' = "rate"
                    /\ UNCHANGED <<lResult, lNLogin>>
  /\ UNCHANGED last_request
  /\ UNCHANGED outsideLib

NextLib ==
  \/ LibTick
  \/ LibRequest
  \/ LibRateLimit
  \/ LibTransport

SpecLib == Init /\ [][NextLib]_vars

\* ------------------------------------- one answer, three Sessions (SpecAnswer)
\* web Session::request after the rate gate: send()?.text()?, then
\* response.trim().is_empty(); the status is not looked at and the body is
\* returned as text
WebRequest(r) ==
  IF r.io # "ok" THEN Err("Transport", 0)
  ELSE IF r.body.kind \in {"empty", "blank"} THEN Err("EmptyServerResponse", 0)
  ELSE Ok(0)

\* the transport call of a request returns
Receive ==
  /\ answer = NoAnswer
  /\ \E r \in Answers : answer' = r
  /\ UNCHANGED <<v2Out, libOut, webOut>>
  /\ UNCHANGED outsideAnswer

\* v2 generic_request handles the answer
V2Answer ==
  /\ answer # NoAnswer /\ v2Out = NoResult
  /\ v2Out' = Classify(answer, 0)
  /\ UNCHANGED <<answer, libOut, webOut>>
  /\ UNCHANGED outsideAnswer

\* lib.rs generic_request handles the answer
LibAnswer ==
  /\ answer # NoAnswer /\ libOut = NoResult
  /\ libOut' = LibClassify(answer, 0)
  /\ UNCHANGED <<answer, v2Out, webOut>>
  /\ UNCHANGED outsideAnswer

\* web Session::request handles the answer
WebAnswer ==
  /\ answer # NoAnswer /\ webOut = NoResult
  /\ webOut' = WebRequest(answer)
  /\ UNCHANGED <<answer, v2Out, libOut>>
  /\ UNCHANGED outsideAnswer

NextAnswer ==
  \/ Receive
  \/ V2Answer
  \/ LibAnswer
  \/ WebAnswer

SpecAnswer == Init /\ [][NextAnswer]_vars

\* ------------------------------------------------- replays (SpecReplay)
\* serde_json as_f64: any number; as_i64 and as_u64: integers only
IsNumber(j) == j.k \in {"int", "big", "float"}
IsI64(j) == j.k \in {"int", "big"}
IsU64(j) == (j.k = "int" /\ j.n >= 0) \/ j.k = "big"
\* the value of the number j (an integer below 2^31 or a fraction) divided
\* by d (1 or 1000), in units of 1e-8
Fixed(j, d) ==
  IF j.k = "int" THEN j.n * (FixedOne \div d) ELSE j.n * (1000 \div d)
Abs(x) == IF x < 0 THEN -x ELSE x
\* the integer j cast with `as u32`: its value modulo 2^32, as two halves
as_u32(j) == U32((j.n \div Half) % Half, j.n % Half)

\* (deviation - 0.18).abs() < 0.0000001 for deviation = f32_()? / 1000.0,
\* in f32: the deviation_ms rounded to a multiple of 2^-16, its thousandth
\* rounded to a multiple of 2^-26, compared with 0.18f32
is_miss(j) ==
  LET e == Fixed(j, 1000) - MissSentinel
  IN IF Abs(e) > MissWindow THEN FALSE
     ELSE LET ms == F32Ms180 + (e * 2048 + 1562) \div 3125
              deviation == (ms * 128 + 62) \div 125
          IN Abs(deviation - F32Sentinel) <= MissUlps

\* the outcome of reading one field of a row
FieldOk(x) == [tag |-> "Ok", err |-> "", v |-> x]
FieldErr(e, x) == [tag |-> "Err", err |-> e, v |-> x]
FieldPanic(x) == [tag |-> "Panic", err |-> "", v |-> x]
\* the outcome of reading one row
NOk(note) == [tag |-> "Ok", err |-> "", note |-> note]
NErr(e) == [tag |-> "Err", err |-> e, note |-> NullNote]
NPanic == [tag |-> "Panic", err |-> "", note |-> NullNote]

NoteTypeNames ==
  <<"Tap", "HoldHead", "HoldTail", "Mine", "Lift", "Keysound", "Fake">>

\* attempt_get when its closure returns None for the value j: the error
\* InvalidJsonStructure, or the panic of msg.truncate(500) when byte 500 of
\* the message is inside a multi-byte character
attempt_get_failed(j, x) ==
  IF j.k = "longstr" THEN FieldPanic(x)
  ELSE FieldErr("InvalidJsonStructure", x)

\* u32_(): u64_()? as u32
u32_(j) ==
  IF ~IsU64(j) THEN attempt_get_failed(j, U32Zero) ELSE FieldOk(as_u32(j))

\* note_type_from_eo: u32_()?, then 1..7 are the seven note types
note_type_from_eo(j) ==
  LET n == u32_(j)
  IN IF n.tag # "Ok" THEN [n EXCEPT !.v = NoType]
     ELSE IF n.v.hi = 0 /\ n.v.lo \in 1..7
     THEN FieldOk(Some(NoteTypeNames[n.v.lo]))
     ELSE FieldErr("UnexpectedResponse", NoType)

\* the lane closure of parse_replay: -1 is None, 0..=255 a lane, everything
\* else invalid
lane_from_eo(j) ==
  IF ~IsI64(j) THEN attempt_get_failed(j, None)
  ELSE IF j.k = "big" THEN FieldErr("InvalidJsonStructure", None)
  ELSE IF j.n = -1 THEN FieldOk(None)
  ELSE IF j.n \in 0..255 THEN FieldOk(Some(j.n))
  ELSE FieldErr("InvalidJsonStructure", None)

\* x.u32_() of the tick
tick_from_eo(j) ==
  LET n == u32_(j)
  IN IF n.tag # "Ok" THEN [n EXCEPT !.v = NoTick] ELSE FieldOk(Some(n.v))

\* variant: in a row of three slots the third slot is the tick
tick_slot_ThirdOfThree(len) == IF len = 3 THEN 3 ELSE 5

\* the slots note_json.get(2), .get(3) and .get(4), counted from 1, in a
\* row of len slots
lane_slot(len) == 3
note_type_slot(len) == 4
tick_slot(len) == 5

\* the `?` of a field that was not read: the error is returned, the panic
\* unwinds
field_failed(f) == IF f.tag = "Panic" THEN NPanic ELSE NErr(f.err)

\* the body of the closure mapped over the rows: one ReplayNote, the error
\* of the first `?` that fails, the panic of attempt_get on a value it
\* cannot print, or the panic of note_json[0] / note_json[1] on a row that
\* is too short
parse_note(row) ==
  IF ~row.arr THEN IF row.long THEN NPanic ELSE NErr("InvalidJsonStructure")
  ELSE
    LET a == row.slots
        len == Len(a)
    IN IF len < 1 THEN NPanic
       ELSE IF ~IsNumber(a[1]) THEN field_failed(attempt_get_failed(a[1], 0))
       ELSE IF len < 2 THEN NPanic
       ELSE IF ~IsNumber(a[2]) THEN field_failed(attempt_get_failed(a[2], 0))
       ELSE
         LET deviation == Fixed(a[2], 1000)
             miss == is_miss(a[2])
             lane == IF len >= lane_slot(len)
                     THEN lane_from_eo(a[lane_slot(len)]) ELSE FieldOk(None)
             note_type == IF len >= note_type_slot(len)
                          THEN note_type_from_eo(a[note_type_slot(len)])
                          ELSE FieldOk(NoType)
             tick == IF len >= tick_slot(len)
                     THEN tick_from_eo(a[tick_slot(len)]) ELSE FieldOk(NoTick)
         IN IF lane.tag # "Ok" THEN field_failed(lane)
            ELSE IF note_type.tag # "Ok" THEN field_failed(note_type)
            ELSE IF tick.tag # "Ok" THEN field_failed(tick)
            ELSE NOk([time |-> Fixed(a[1], 1), hit |-> ~miss,
                      deviation |-> IF miss THEN 0 ELSE deviation,
                      lane |-> lane.v, note_type |-> note_type.v,
                      tick |-> tick.v])

\* .iter().map(..).collect::<Result<Vec<ReplayNote>, Error>>(): the rows
\* are read in order up to the first one that fails
RECURSIVE parse_notes(_)
parse_notes(rows) ==
  IF rows = <<>> THEN RSome(<<>>)
  ELSE LET h == parse_note(Head(rows))
       IN IF h.tag = "Panic" THEN RPanic
          ELSE IF h.tag = "Err" THEN RErr(h.err)
          ELSE LET t == parse_notes(Tail(rows))
               IN IF t.tag = "Some" THEN RSome(<<h.note>> \o t.notes) ELSE t

\* variant: text that is not JSON counts as no replay
from_str_failed_IsNoReplay == RNone

\* serde_json::from_str(replay_str)? on text that is not JSON
from_str_failed == RErr("Json")

\* parse_replay of common/mod.rs
parse_replay(json) ==
  IF json.shape = "null" THEN RNone
  ELSE IF json.shape = "array0" THEN RPanic
  ELSE IF json.shape = "array_nonstr" THEN RNone
  ELSE IF json.shape \notin {"array1", "array2", "string"} THEN RNone
  ELSE IF json.inner.kind = "invalid" THEN from_str_failed
  \* json.array()? on a value that is not an array
  ELSE IF json.inner.kind = "scalar" THEN RErr("InvalidJsonStructure")
  ELSE IF json.inner.kind = "longscalar" THEN RPanic
  ELSE LET notes == parse_notes(json.inner.rows)
       IN IF notes.tag # "Some" THEN notes
          ELSE IF Len(notes.notes) = 0 THEN RNone
          ELSE notes

\* the loop body of parse_replay of lib.rs: every field is unwrapped, the
\* deviation is never a miss, the lane is cast with `as u8` (2^32 is a
\* multiple of 256) and the tick with `as u32`
lib_parse_note(row) ==
  IF ~row.arr THEN NPanic
  ELSE
    LET a == row.slots
        len == Len(a)
    IN IF len < 1 \/ ~IsNumber(a[1]) THEN NPanic
       ELSE IF len < 2 \/ ~IsNumber(a[2]) THEN NPanic
       ELSE IF len < 3 \/ ~IsI64(a[3]) THEN NPanic
       ELSE IF len < 4 \/ ~IsI64(a[4]) THEN NPanic
       ELSE IF a[4].k = "big" \/ a[4].n \notin 1..7
       THEN NErr("UnexpectedResponse")
       ELSE IF len < 5 \/ ~IsI64(a[5]) THEN NPanic
       ELSE NOk([time |-> Fixed(a[1], 1), hit |-> TRUE,
                 deviation |-> Fixed(a[2], 1000),
                 lane |-> Some(a[3].n % 256),
                 note_type |-> Some(NoteTypeNames[a[4].n]),
                 tick |-> Some(as_u32(a[5]))])

RECURSIVE lib_parse_notes(_)
lib_parse_notes(rows) ==
  IF rows = <<>> THEN RSome(<<>>)
  ELSE LET h == lib_parse_note(Head(rows))
       IN IF h.tag = "Panic" THEN RPanic
          ELSE IF h.tag = "Err" THEN RErr(h.err)
          ELSE LET t == lib_parse_notes(Tail(rows))
               IN IF t.tag = "Some" THEN RSome(<<h.note>> \o t.notes) ELSE t

\* parse_replay of lib.rs
lib_parse_replay(json) ==
  IF json.shape \in {"null", "number", "bool", "object", "string"} THEN RPanic
  ELSE IF json.shape = "array0" THEN RPanic
  ELSE IF json.shape = "array_nonstr" THEN RNone
  ELSE IF json.inner.kind = "invalid" THEN RErr("InvalidJson")
  ELSE IF json.inner.kind \in {"scalar", "longscalar"} THEN RPanic
  ELSE lib_parse_notes(json.inner.rows)

\* variant: every note type is kept
is_tap_or_hold_head_AnyType(note_type) == TRUE

\* note.note_type? == NoteType::Tap || note.note_type? == NoteType::HoldHead
is_tap_or_hold_head(note_type) == note_type = "Tap" \/ note_type = "HoldHead"

\* the loop of split_into_lanes over the notes still to visit, with the
\* four series filled so far
RECURSIVE split_from(_, _)
split_from(notes, acc) ==
  IF notes = <<>> THEN SplitSome(acc)
  ELSE
    LET note == Head(notes)
    IN IF ~note.lane.some THEN SplitNone
       ELSE IF note.lane.v >= 4 THEN split_from(Tail(notes), acc)
       ELSE IF ~note.note_type.some THEN SplitNone
       ELSE IF ~is_tap_or_hold_head(note.note_type.v)
       THEN split_from(Tail(notes), acc)
       ELSE
         LET i == note.lane.v + 1
             pushed == [acc EXCEPT ![i].note_seconds = Append(@, note.time)]
         IN split_from(Tail(notes),
              IF note.hit
              THEN [pushed EXCEPT ![i].hit_seconds =
                                    Append(@, note.time + note.deviation)]
              ELSE pushed)

\* Replay::split_into_lanes
split_into_lanes(notes) == split_from(notes, EmptyLanes)

\* a replay value arrives in the answer of a score request
TakeReplayJson ==
  /\ replay_json = NoJson /\ replay = NoReplay
  /\ \E j \in ReplayJsons : replay_json' = j
  /\ UNCHANGED <<parsed, libParsed, replay, lanes>>
  /\ UNCHANGED outsideReplay

\* parse_replay (common/mod.rs) is called on it; a Replay it returns is
\* the caller's from then on
ParseReplay ==
  /\ replay_json # NoJson /\ parsed = NotParsed
  /\ parsed' = parse_replay(replay_json)
  /\ replay' = IF parsed'.tag = "Some" THEN ReplayOf(parsed'.notes) ELSE replay
  /\ UNCHANGED <<replay_json, libParsed, lanes>>
  /\ UNCHANGED outsideReplay

\* parse_replay (lib.rs) is called on it
LibParseReplay ==
  /\ replay_json # NoJson /\ libParsed = NotParsed
  /\ libParsed' = lib_parse_replay(replay_json)
  /\ UNCHANGED <<replay_json, parsed, replay, lanes>>
  /\ UNCHANGED outsideReplay

\* the caller builds a Replay itself (its fields are public)
BuildReplay ==
  /\ replay_json = NoJson /\ replay = NoReplay
  /\ \E r \in BuiltReplays : replay' = ReplayOf(r)
  /\ UNCHANGED <<replay_json, parsed, libParsed, lanes>>
  /\ UNCHANGED outsideReplay

\* replay.split_into_lanes()
SplitIntoLanes ==
  /\ replay.present /\ lanes = NotSplit
  /\ lanes' = split_into_lanes(replay.notes)
  /\ UNCHANGED <<replay_json, parsed, libParsed, replay>>
  /\ UNCHANGED outsideReplay

NextReplay ==
  \/ TakeReplayJson
  \/ ParseReplay
  \/ LibParseReplay
  \/ BuildReplay
  \/ SplitIntoLanes

SpecReplay == Init /\ [][NextReplay]_vars

\* ------------------------------------------- calc_rating (SpecRating)
\* variant: the further a skillset is above the rating, the less it adds
Power_Decreasing(dm, d) ==
  LET table == IF dm = 250 THEN ChartPower ELSE PlayerPower
  IN IF d \div 2 > Len(table) THEN 0 ELSE PowerCap - table[d \div 2]

\* 2.0 / erfc(delta_multiplier * (ssr - rating)) - 2.0 for ssr - rating =
\* d > 0, in millionths
Power(dm, d) ==
  LET table == IF dm = 250 THEN ChartPower ELSE PlayerPower
  IN IF d \div 2 > Len(table) THEN PowerCap ELSE table[d \div 2]

\* the sum of the terms that are > 0.0: those of the skillsets above the
\* rating
RECURSIVE power_sum(_, _, _)
power_sum(r, s, dm) ==
  IF s = <<>> THEN 0
  ELSE (IF Head(s) > r THEN Power(dm, Head(s) - r) ELSE 0)
       + power_sum(r, Tail(s), dm)

\* is_rating_okay: power_sum < max_power_sum
is_rating_okay(r, s, dm) == power_sum(r, s, dm) < PowTwo[r \div 2 + 1]

\* resolution /= 2.0
next_resolution(res) == res \div 2

Max(a, b) == IF a >= b THEN a ELSE b

\* variant: the aggregate alone
overall_of_AggregateOnly(agg, s) == agg

\* ChartSkillsets::overall after calculate_chart_overall: the larger of
\* the aggregate and the largest skillset (in units of 0.00005)
overall_of(agg, s) ==
  Max(agg, 100 * Max(Max(Max(Max(Max(Max(s[1], s[2]), s[3]), s[4]), s[5]),
                         s[6]), s[7]))

\* calc_rating is entered with the seven skillsets s
EnterCalcRating(s) ==
  /\ ssrs' = s
  /\ rating' = 0 /\ resolution' = InitialResolution /\ iters' = 0 /\ incs' = 0
  /\ cr_pc' = "loop"
  /\ UNCHANGED <<aggregated, overall>>

\* ChartSkillsets::overall is called: calculate_chart_overall
ChartOverall ==
  /\ cr_pc = "idle"
  /\ \E s \in SkillsetVectors : EnterCalcRating(s)
  /\ site' = "chart"
  /\ UNCHANGED prev
  /\ UNCHANGED outsideRating

\* UserSkillsets::overall is called: calculate_player_overall
UserOverall ==
  /\ cr_pc = "idle"
  /\ \E s \in SkillsetVectors : EnterCalcRating(s)
  /\ site' = "player"
  /\ UNCHANGED prev
  /\ UNCHANGED outsideRating

\* while !is_rating_okay(rating + resolution, ..) { rating += resolution; }
WhileStep ==
  /\ cr_pc = "loop" /\ iters < Params(site).num_iters
  /\ ~is_rating_okay(rating + resolution, ssrs, Params(site).delta_multiplier)
  /\ rating' = rating + resolution
  /\ incs' = incs + 1
  /\ UNCHANGED <<ssrs, site, cr_pc, resolution, iters, aggregated, overall, prev>>
  /\ UNCHANGED outsideRating

\* the while loop ends; resolution /= 2.0; next iteration of the for loop
Halve ==
  /\ cr_pc = "loop" /\ iters < Params(site).num_iters
  /\ is_rating_okay(rating + resolution, ssrs, Params(site).delta_multiplier)
  /\ resolution' = next_resolution(resolution)
  /\ iters' = iters + 1
  /\ incs' = 0
  /\ UNCHANGED <<ssrs, site, cr_pc, rating, aggregated, overall, prev>>
  /\ UNCHANGED outsideRating

\* the for loop is over: rating += resolution * 2.0 when add_res_x2,
\* rating * final_multiplier is returned, and overall() returns
Return ==
  /\ cr_pc = "loop" /\ iters = Params(site).num_iters
  /\ rating' = IF Params(site).add_res_x2 THEN rating + resolution * 2
               ELSE rating
  /\ aggregated' = rating' * Params(site).final_multiplier
  /\ overall' = IF site = "chart" THEN overall_of(aggregated', ssrs)
                ELSE aggregated'
  /\ cr_pc' = "done"
  /\ UNCHANGED <<ssrs, site, resolution, iters, incs, prev>>
  /\ UNCHANGED outsideRating

\* the same overall() is called again with one skillset raised and the
\* other six as they were
RaiseOne ==
  /\ cr_pc = "done" /\ ~prev.called
  /\ prev' = [called |-> TRUE, ssrs |-> ssrs, aggregated |-> aggregated]
  /\ \E i \in 1..7 : \E w \in CategoryValues :
       /\ w > ssrs[i]
       /\ EnterCalcRating([ssrs EXCEPT ![i] = w])
  /\ UNCHANGED site
  /\ UNCHANGED outsideRating

NextRating ==
  \/ ChartOverall
  \/ UserOverall
  \/ WhileStep
  \/ Halve
  \/ Return
  \/ RaiseOne

SpecRating == Init /\ [][NextRating]_vars

\* ------------------------------------------- start_length (SpecRange)
\* a <= b on u32
U32Le(a, b) == a.hi < b.hi \/ (a.hi = b.hi /\ a.lo <= b.lo)

\* u32::saturating_sub
saturating_sub(a, b) ==
  IF U32Le(a, b) THEN U32Zero
  ELSE IF a.lo >= b.lo THEN U32(a.hi - b.hi, a.lo - b.lo)
  ELSE U32(a.hi - b.hi - 1, a.lo + Half - b.lo)

\* x + 1 wrapped to 32 bits
wrapping_add_one(x) ==
  IF x.lo < Half - 1 THEN U32(x.hi, x.lo + 1)
  ELSE IF x.hi < Half - 1 THEN U32(x.hi + 1, 0)
  ELSE U32Zero

\* impl EoRange for Range<u32>
start_length_Range(r) ==
  LET length == saturating_sub(r.end, r.start)
  IN IF length = U32Zero THEN PanicEmpty ELSE Returned(r.start, length)

\* impl EoRange for RangeInclusive<u32>: self.end() + 1 overflows for
\* u32::MAX
start_length_RangeInclusive(r, checks) ==
  IF r.end = U32Max /\ checks THEN PanicOverflow
  ELSE LET length == saturating_sub(wrapping_add_one(r.end), r.start)
       IN IF length = U32Zero THEN PanicEmpty ELSE Returned(r.start, length)

\* impl EoRange for RangeToInclusive<u32>
start_length_RangeToInclusive(r, checks) ==
  IF r.end = U32Max /\ checks THEN PanicOverflow
  ELSE Returned(U32Zero, wrapping_add_one(r.end))

\* impl EoRange for RangeTo<u32>
start_length_RangeTo(r) ==
  IF r.end = U32Zero THEN PanicEmpty ELSE Returned(U32Zero, r.end)

\* impl EoRange for RangeFull
start_length_RangeFull == Returned(U32Zero, U32Zero)

start_length(r, checks) ==
  CASE r.kind = "Range" -> start_length_Range(r)
    [] r.kind = "RangeInclusive" -> start_length_RangeInclusive(r, checks)
    [] r.kind = "RangeToInclusive" -> start_length_RangeToInclusive(r, checks)
    [] r.kind = "RangeTo" -> start_length_RangeTo(r)
    [] r.kind = "RangeFull" -> start_length_RangeFull

\* a caller builds a range for packlist or a leaderboard, in a build with
\* or without overflow checks
TakeRange ==
  /\ range = NoRange
  /\ range' \in Ranges
  /\ overflow_checks' \in BOOLEAN
  /\ UNCHANGED sl
  /\ UNCHANGED outsideRange

\* range_to_retrieve.start_length()
StartLength ==
  /\ range # NoRange /\ sl = NotCalled
  /\ sl' = start_length(range, overflow_checks)
  /\ UNCHANGED <<range, overflow_checks>>
  /\ UNCHANGED outsideRange

NextRange ==
  \/ TakeRange
  \/ StartLength

SpecRange == Init /\ [][NextRange]_vars

\* ================================================================ claims
\* thread t is executing a login closure passed to refresh
ExecutingLogin(t) == frame[t] = "login" /\ pc[t] # "panicked"

\* C1 (as stated): when two or more refresh calls all start before any of
\* them returns, with no refresh in progress beforehand, their login
\* closures are invoked exactly once in total.
C1_SingleFlight ==
  /\ groupN >= 2 => groupCalls <= 1
  /\ (groupN >= 2 /\ group = {}) => groupCalls = 1

\* C2 (as stated): one logical request sends at most twice and logs in at
\* most once, whatever the server answers.
C2_RetryOnce == \A t \in Threads : nSend[t] <= 2 /\ nLogin[t] <= 1

\* C3 (as stated, taken for two consecutive transport calls that both went
\* through the rate limiter): their start instants are at least the
\* cooldown apart, also when the earlier one had to sleep.
C3_Spacing ==
  (lPrevStart # NoInstant /\ lPrevGated /\ lCurGated)
    => lCurStart - lPrevStart >= Cooldown

\* C4 (as stated): a refresh call that starts while another thread holds the
\* write lock and runs its login closure returns without invoking its own
\* login closure.
C4_PiggybackNoLogin == \A t \in Threads : arrived[t] => ~invoked[t]

\* C5 (as stated): for requests sent with the same expired credential and
\* answered Unauthorized, one login is performed in total: no login closure
\* is started for a credential whose expiry a login has already renewed.
C5_OneLoginPerExpiry ==
  [][\A t \in Threads :
       (invoked'[t] /\ ~invoked[t]) => token[t] \notin renewed]_vars

\* C6: in every reachable state at most one thread is executing a login
\* closure passed to refresh.
C6_OneLoginInFlight ==
  Cardinality({t \in Threads : ExecutingLogin(t)}) <= 1

C6_Witness ==
  \E t, u \in Threads :
    t # u /\ ExecutingLogin(t) /\ writer = t /\ pc[u] = "r_write"

\* C7: no read guard of get_authorization is held while the write guard of
\* refresh is held, and the credential does not change while a read guard
\* is held.
C7_NoHalfRefreshedRead ==
  /\ [](~(readers # {} /\ writer # NoThread))
  /\ [][readers # {} => auth' = auth]_vars

C7_Witness ==
  \E t, u \in Threads :
    t # u /\ writer = t /\ frame[t] = "login" /\ pc[u] = "get_auth"

\* C8: a failing login closure leaves the credential as it was, its error
\* is returned by the refresh call that invoked the closure, and a refresh
\* call that did not invoke its closure returns Ok.
C8_LoginFailureStaysLocal ==
  /\ [](\A t \in Threads :
          /\ rres[t] = "err" => invoked[t]
          /\ (rres[t] # "none" /\ ~invoked[t]) => rres[t] = "ok")
  /\ [][\A t \in Threads :
          (pc[t] = "r_assign" /\ rres'[t] = "err") => auth' = auth]_vars

C8_Witness ==
  \E t, u \in Threads :
    /\ t # u
    /\ rres[u] = "err" /\ invoked[u] /\ result[u].tag = "Err"
    /\ rres[t] = "ok" /\ ~invoked[t] /\ arrived[t]
    /\ lastRefreshed = 1 /\ auth = 1

\* C9: a get_authorization call that starts after a refresh has completed
\* returns the credential stored by that refresh or by a later one.
C9_ReadAfterRefresh ==
  \A t \in Threads :
    (pc[t] = "send" /\ frame[t] = "req") => token[t] >= floor[t]

C9_Witness ==
  \E t \in Threads :
    pc[t] = "send" /\ frame[t] = "req" /\ floor[t] >= 2 /\ token[t] = floor[t]

\* C10 (as stated): a request whose answer is a failure other than
\* Unauthorized (a transport error, a status of 400 or more, an empty body,
\* text that is not JSON, a JSON document without a "data" member to take)
\* returns an error in the step that receives the answer, leaving the
\* credential unchanged, after one transport call and without a login when
\* no Unauthorized answer came before.
C10_OtherFailuresSurface ==
  [][\A t \in Threads :
       (pc[t] = "send" /\ frame[t] = "req" /\ pc'[t] # "send"
        /\ otherFailure'[t])
         => /\ pc'[t] = "idle" /\ result'[t].tag = "Err"
            /\ auth' = auth
            /\ ~gotUnauth[t] => (nSend'[t] = 1 /\ nLogin'[t] = 0)]_vars

\* C11 (as stated): an answer whose status is 5xx makes the request fail
\* with the service-unavailable error carrying exactly that status code,
\* whatever the body holds, without a login or a second send; taken for
\* both Sessions the claim cites (v2 and lib.rs).
C11_ServerDownCarriesStatus ==
  (answer.io = "ok" /\ answer.status >= 500) =>
    /\ v2Out # NoResult => v2Out = Err("ServerIsDown", answer.status)
    /\ libOut # NoResult => libOut = Err("ServerIsDown", answer.status)

\* C12: an answer with a zero-length body and a status below 500 fails
\* with EmptyServerResponse in the v2 and web Sessions (not with a JSON
\* error and not with an error chosen by title), and the body {} is never
\* answered with EmptyServerResponse.
C12_EmptyBodyIsItsOwnError ==
  /\ (answer.io = "ok" /\ answer.status < 500 /\ answer.body.kind = "empty") =>
       /\ v2Out # NoResult => v2Out = Err("EmptyServerResponse", 0)
       /\ webOut # NoResult => webOut = Err("EmptyServerResponse", 0)
  /\ (answer.io = "ok" /\ answer.body = EmptyObject) =>
       /\ v2Out # Err("EmptyServerResponse", 0)
       /\ webOut # Err("EmptyServerResponse", 0)

C12_Witness ==
  /\ answer.io = "ok" /\ answer.status = 404 /\ answer.body.kind = "empty"
  /\ v2Out = Err("EmptyServerResponse", 0)
  /\ webOut = Err("EmptyServerResponse", 0)

\* the outer shapes from which parse_replay takes an inner string
Unwrapped == {"string", "array1", "array2"}

\* C13: when the outer value unwraps to an inner string that is not valid
\* JSON, parse_replay (common/mod.rs) returns an error; it returns Ok(None)
\* only for a null replay, an outer shape it does not unwrap, or an inner
\* array of zero rows.
C13_InvalidInnerIsHardError ==
  /\ (replay_json.shape \in Unwrapped /\ replay_json.inner.kind = "invalid"
      /\ parsed # NotParsed) => parsed.tag = "Err"
  /\ parsed.tag = "None" =>
       \/ replay_json.shape \notin Unwrapped
       \/ replay_json.inner.kind = "rows" /\ replay_json.inner.rows = <<>>

C13_Witness ==
  /\ replay_json.shape = "array1" /\ replay_json.inner.kind = "invalid"
  /\ parsed = RErr("Json")

\* C14 (as stated): for an outer value that is null or of any shape other
\* than a bare string or a one-element array holding a string, parse_replay
\* (common/mod.rs and lib.rs) returns Ok(None): no error, no panic.
C14_OtherShapesAreNoReplay ==
  replay_json.shape \notin {"none", "string", "array1"} =>
    /\ parsed # NotParsed => parsed = RNone
    /\ libParsed # NotParsed => libParsed = RNone

\* slot 0 (time) or slot 1 (deviation) of the row is missing or is not a
\* number
RequiredFieldFails(row) ==
  /\ row.arr
  /\ \/ Len(row.slots) < 2
     \/ ~IsNumber(row.slots[1])
     \/ ~IsNumber(row.slots[2])

\* C15 (as stated): when a row fails required-field extraction (rows of
\* length 0 or 1 included), parse_replay (common/mod.rs and lib.rs) returns
\* an error: it does not panic and returns neither None nor a Replay.
C15_RequiredFieldIsHardError ==
  (/\ replay_json.shape \in Unwrapped /\ replay_json.inner.kind = "rows"
   /\ \E i \in 1..Len(replay_json.inner.rows) :
        RequiredFieldFails(replay_json.inner.rows[i])) =>
    /\ parsed # NotParsed => parsed.tag = "Err"
    /\ libParsed # NotParsed => libParsed.tag = "Err"

\* the note fields a slot value stands for: a lane (-1 is absent), and a
\* note type and a tick read as u32
LaneValue(j) == IF j.n = -1 THEN None ELSE Some(j.n)
TypeValue(j) == Some(NoteTypeNames[as_u32(j).lo])
TickValue(j) == Some(as_u32(j))
\* parse_replay (common/mod.rs) returned a Replay: note i was read from row i
ParsedRows == IF parsed.tag = "Some" THEN 1..Len(replay_json.inner.rows) ELSE {}
RowSlots(i) == replay_json.inner.rows[i].slots

\* C16 (as stated): the row shape is chosen by the row length: in a row of
\* three slots [time, deviation_ms, x] the third slot x is stored as the
\* note's tick, with lane and note_type absent; in a row of five slots,
\* slots 2, 3 and 4 are lane, note_type and tick.
C16_RowShapeByLength ==
  \A i \in ParsedRows :
    /\ Len(RowSlots(i)) = 3 =>
         /\ parsed.notes[i].tick = TickValue(RowSlots(i)[3])
         /\ parsed.notes[i].lane = None
         /\ parsed.notes[i].note_type = NoType
    /\ Len(RowSlots(i)) = 5 =>
         /\ parsed.notes[i].lane = LaneValue(RowSlots(i)[3])
         /\ parsed.notes[i].note_type = TypeValue(RowSlots(i)[4])
         /\ parsed.notes[i].tick = TickValue(RowSlots(i)[5])

\* C16 (amended): every optional field has its own slot, read whenever the
\* row is long enough: slot 2 is the lane, slot 3 the note_type, slot 4 the
\* tick. In a row of three slots the third slot is the lane, and note_type
\* and tick are absent.
C16_FixedSlots ==
  \A i \in ParsedRows :
    /\ parsed.notes[i].lane =
         IF Len(RowSlots(i)) >= 3 THEN LaneValue(RowSlots(i)[3]) ELSE None
    /\ parsed.notes[i].note_type =
         IF Len(RowSlots(i)) >= 4 THEN TypeValue(RowSlots(i)[4]) ELSE NoType
    /\ parsed.notes[i].tick =
         IF Len(RowSlots(i)) >= 5 THEN TickValue(RowSlots(i)[5]) ELSE NoTick

C16_Witness ==
  /\ parsed.tag = "Some"
  /\ \E i, j \in ParsedRows :
       /\ RowSlots(i) = <<JInt(1), JInt(45), JInt(5)>>
       /\ parsed.notes[i].lane = Some(5) /\ parsed.notes[i].tick = NoTick
       /\ Len(RowSlots(j)) = 5 /\ RowSlots(j)[5] = JBig(96)
       /\ parsed.notes[j].tick = Some(U32(0, 96))

\* parse_replay (lib.rs) returned a Replay: note i was read from row i
LibParsedRows ==
  IF libParsed.tag = "Some" THEN 1..Len(replay_json.inner.rows) ELSE {}

\* the note read from a row whose deviation slot is d is a miss when d is
\* exactly 180, and otherwise a hit with deviation d / 1000; it is never a
\* hit with deviation 0.18
MissExactlyAt180(note, d) ==
  /\ d = JInt(180) => ~note.hit
  /\ d # JInt(180) => note.hit /\ note.deviation = Fixed(d, 1000)
  /\ ~(note.hit /\ note.deviation = MissSentinel)

\* C17 (as stated): in every Replay returned by parse_replay (common/mod.rs
\* and lib.rs), a row whose deviation_ms is exactly 180 gives a miss, every
\* other deviation_ms d gives a hit with deviation d / 1000, and no note is
\* a hit with deviation 0.18.
C17_MissSentinel ==
  /\ \A i \in ParsedRows : MissExactlyAt180(parsed.notes[i], RowSlots(i)[2])
  /\ \A i \in LibParsedRows :
       MissExactlyAt180(libParsed.notes[i], RowSlots(i)[2])

\* C18 (as stated): parse_replay (common/mod.rs and lib.rs) never returns a
\* Replay with zero notes; an inner string that decodes to an empty array
\* of rows gives Ok(None).
C18_NoEmptyReplay ==
  /\ parsed.tag = "Some" => Len(parsed.notes) > 0
  /\ libParsed.tag = "Some" => Len(libParsed.notes) > 0
  /\ (replay_json.shape \in {"string", "array1"}
      /\ replay_json.inner.kind = "rows" /\ replay_json.inner.rows = <<>>) =>
       /\ parsed # NotParsed => parsed = RNone
       /\ libParsed # NotParsed => libParsed = RNone

\* C19 (as stated): in every Replay returned by parse_replay
\* (common/mod.rs), lane is present on all notes or on none, and likewise
\* note_type and tick; a note with a tick has a lane and a note_type; a
\* note with a note_type has a lane.
C19_UniformPresence ==
  parsed.tag = "Some" =>
    /\ \A i, j \in 1..Len(parsed.notes) :
         /\ parsed.notes[i].lane.some = parsed.notes[j].lane.some
         /\ parsed.notes[i].note_type.some = parsed.notes[j].note_type.some
         /\ parsed.notes[i].tick.some = parsed.notes[j].tick.some
    /\ \A i \in 1..Len(parsed.notes) :
         /\ parsed.notes[i].tick.some =>
              parsed.notes[i].lane.some /\ parsed.notes[i].note_type.some
         /\ parsed.notes[i].note_type.some => parsed.notes[i].lane.some

\* C20 (as stated): split_into_lanes returns None if and only if at least
\* one note of the replay lacks lane or lacks note_type; otherwise, also
\* for a replay without notes, it returns Some of four series.
C20_SplitNoneIffFieldMissing ==
  lanes # NotSplit =>
    /\ lanes.tag = "None" <=>
         \E i \in 1..Len(replay.notes) :
           ~replay.notes[i].lane.some \/ ~replay.notes[i].note_type.some
    /\ lanes.tag = "Some" => Len(lanes.lanes) = 4

\* the positions, in replay order, of the notes on lane i (0..3) whose type
\* is Tap or HoldHead, and of those of them that are hits
KeptOn(i) ==
  {k \in 1..Len(replay.notes) :
     /\ replay.notes[k].lane = Some(i)
     /\ replay.notes[k].note_type \in {Some("Tap"), Some("HoldHead")}}
HitsOn(i) == {k \in KeptOn(i) : replay.notes[k].hit}
\* the r-th smallest element of the set of positions S
Nth(S, r) == CHOOSE k \in S : Cardinality({j \in S : j <= k}) = r

\* C21: when split_into_lanes returns Some, lane i's note_seconds is the
\* times, in replay order, of the notes on lane i of type Tap or HoldHead,
\* and its hit_seconds is time + deviation, in replay order, of the hits
\* among them; no other note and no miss adds an entry.
C21_SeriesContents ==
  lanes.tag = "Some" =>
    \A i \in 0..3 :
      /\ Len(lanes.lanes[i + 1].note_seconds) = Cardinality(KeptOn(i))
      /\ \A r \in 1..Cardinality(KeptOn(i)) :
           lanes.lanes[i + 1].note_seconds[r] =
             replay.notes[Nth(KeptOn(i), r)].time
      /\ Len(lanes.lanes[i + 1].hit_seconds) = Cardinality(HitsOn(i))
      /\ \A r \in 1..Cardinality(HitsOn(i)) :
           lanes.lanes[i + 1].hit_seconds[r] =
             replay.notes[Nth(HitsOn(i), r)].time
               + replay.notes[Nth(HitsOn(i), r)].deviation

C21_Witness ==
  /\ lanes.tag = "Some" /\ Len(replay.notes) = 2
  /\ ~replay.notes[1].hit /\ replay.notes[2].hit
  /\ lanes.lanes[1].note_seconds = <<FixedOne, 2 * FixedOne>>
  /\ lanes.lanes[1].hit_seconds = <<2 * FixedOne + 4500000>>

\* C22: ChartSkillsets::overall() returns the larger of the aggregate that
\* calc_rating computes and the largest of the seven skillsets, so the
\* value returned is at least every skillset of the chart.
C22_OverallAtLeastEveryCategory ==
  (cr_pc = "done" /\ site = "chart") =>
    /\ \A i \in 1..7 : overall >= 100 * ssrs[i]
    /\ \/ overall = aggregated
       \/ \E i \in 1..7 : overall = 100 * ssrs[i]
    /\ overall >= aggregated

\* the aggregate of a chart is below its largest skillset, and overall()
\* has returned that skillset
C22_Witness ==
  /\ cr_pc = "done" /\ site = "chart"
  /\ \E i \in 1..7 : aggregated < 100 * ssrs[i] /\ overall = 100 * ssrs[i]

\* C23: calc_rating is monotone: with one skillset raised and the other
\* six unchanged, the value it returns is not lower than before.
C23_Monotone ==
  (cr_pc = "done" /\ prev.called) => aggregated >= prev.aggregated

\* a skillset was raised and calc_rating returned a strictly higher value
C23_Witness ==
  /\ cr_pc = "done" /\ prev.called
  /\ \E i \in 1..7 : ssrs[i] > prev.ssrs[i]
  /\ aggregated > prev.aggregated

\* C27: the rating calc_rating holds before the final multiplier (the bias
\* included) is the lowest positive multiple of 10.24 / 2^(iterations - 1)
\* that is okay, and in every iteration after the first the while loop
\* increments the rating at most once.
C27_LowestOkayMultiple ==
  LET dm == Params(site).delta_multiplier
      step == 2 * resolution
  IN /\ (cr_pc = "loop" /\ iters >= 1) => incs <= 1
     /\ cr_pc = "done" =>
          /\ step * 1024 = InitialResolution
          /\ rating > 0 /\ rating % step = 0
          /\ is_rating_okay(rating, ssrs, dm)
          /\ rating > step => ~is_rating_okay(rating - step, ssrs, dm)
     \* every lower multiple, for the first call of a behaviour (each
     \* vector of skillsets is the argument of a first call)
     /\ (cr_pc = "done" /\ ~prev.called) =>
          \A m \in 1..(rating \div step - 1) :
            ~is_rating_okay(m * step, ssrs, dm)

\* a call has returned, iterations after the first have incremented the
\* rating, and the rating before the multiplier is okay while the multiple
\* below it is not
C27_Witness ==
  /\ cr_pc = "done" /\ rating > 2 * resolution
  /\ (rating - 2 * resolution) % InitialResolution # 0
  /\ is_rating_okay(rating, ssrs, Params(site).delta_multiplier)
  /\ ~is_rating_okay(rating - 2 * resolution, ssrs,
                     Params(site).delta_multiplier)

\* the range has no element: a..b with a >= b, a..=b with a > b, ..0
IsEmptyRange(r) ==
  \/ r.kind = "Range" /\ U32Le(r.end, r.start)
  \/ r.kind = "RangeInclusive" /\ r.end # r.start /\ U32Le(r.end, r.start)
  \/ r.kind = "RangeTo" /\ r.end = U32Zero

\* the number of elements of a non-empty range other than 0..=u32::MAX
\* and ..=u32::MAX, whose 2^32 elements no u32 counts
Counted(r) == ~(r.kind \in {"RangeInclusive", "RangeToInclusive"}
                /\ r.start = U32Zero /\ r.end = U32Max)
ElementCount(r) ==
  IF r.kind \in {"Range", "RangeTo"} THEN saturating_sub(r.end, r.start)
  ELSE wrapping_add_one(saturating_sub(r.end, r.start))

\* C24: for every non-empty u32 range, the end u32::MAX included,
\* start_length returns the start and the number of elements, a length of
\* at least 1; it panics exactly when the range is empty or reversed; and
\* only the full range .. yields the length 0.
C24_StartLength ==
  sl # NotCalled =>
    /\ (sl.kind # "ok") <=> (range.kind # "RangeFull" /\ IsEmptyRange(range))
    /\ (sl.kind = "ok" /\ sl.length = U32Zero) => range.kind = "RangeFull"
    /\ (range.kind # "RangeFull" /\ ~IsEmptyRange(range) /\ Counted(range)) =>
         sl = Returned(range.start, ElementCount(range))

\* thread t holds the refresh mutex or a guard of the credential lock
HoldsAnyLock(t) ==
  refresh_checking_mutex = t \/ writer = t \/ t \in readers

\* C25: when refresh returns (Ok after its own login, Ok after waiting for
\* another thread's login, or the Err of its closure) the calling thread
\* holds neither the refresh mutex nor a guard of the credential lock.
C25_RefreshReturnsLockFree ==
  [][\A t \in Threads :
       (rres[t] = "none" /\ rres'[t] # "none") => ~HoldsAnyLock(t)']_vars

\* one thread has returned from refresh after its own login and another
\* after waiting for that login, and neither holds a lock
C25_Witness ==
  \E t, u \in Threads :
    /\ rres[t] = "ok" /\ invoked[t] /\ pc[t] = "rate"
    /\ rres[u] = "ok" /\ ~invoked[u] /\ pc[u] = "rate"
    /\ ~HoldsAnyLock(t) /\ ~HoldsAnyLock(u)

\* C26: generic_request holds the read guard of the credential only while
\* it copies the token: the guard is released before the transport call
\* and before any re-authentication.
C26_ReadGuardOnlyWhileCopying ==
  \A t \in Threads : t \in readers => pc[t] = "copy"

\* a request that copied the token is answered Unauthorized and waits for
\* the write lock of its re-login without holding a read guard, while
\* another thread holds a read guard for its copy
C26_Witness ==
  \E t, u \in Threads :
    /\ pc[t] = "r_write" /\ frame[t] = "req" /\ token[t] # NoToken
    /\ t \notin readers
    /\ u \in readers /\ pc[u] = "copy"

\* thread t, running its login closure under the write guard, waits in a
\* nested refresh for a read guard of the lock it holds itself
BlockedOnOwnLock(t) == pc[t] = "r_wait" /\ writer = t

\* C28: every Session::login call eventually returns; when the login
\* request itself is answered Unauthorized, the nested re-login does not
\* block forever on the refresh mutex or on the credential lock.
C28_LoginReturns == \A t \in Threads : ~BlockedOnOwnLock(t)

\* C29: in every reachable state of a successfully constructed v2 Session
\* the credential is Some(token): it is never reset to None, and the
\* 'No authorization set' panic of generic_request cannot happen.
C29_CredentialAlwaysSet ==
  /\ auth # NoToken
  /\ \A t \in Threads :
       (pc[t] = "send" /\ frame[t] = "req") => token[t] # NoToken

\* a login has failed and a later request has copied the credential, which
\* is still set
C29_Witness ==
  \E t, u \in Threads :
    /\ rres[u] = "err" /\ invoked[u]
    /\ pc[t] = "send" /\ frame[t] = "req" /\ token[t] = auth
    /\ auth # NoToken

\* C30: every transport call (an ordinary request, the login request, a
\* request sent again after a login) passes through the rate gate, so the
\* cooldown also separates a login from the requests next to it.
C30_EveryCallGated ==
  /\ lSends >= 1 => lCurGated
  /\ (lPrevStart # NoInstant /\ (~lCurGated \/ ~lPrevGated))
       => lCurStart - lPrevStart >= Cooldown

TypeOK ==
  /\ auth \in 0..MaxTokens /\ issued \in 1..MaxTokens
  /\ writer \in Threads \cup {NoThread} /\ refresh_checking_mutex \in Threads \cup {NoThread}
  /\ readers \subseteq Threads
  /\ sends \in 0..MaxSends

=============================================================================
